---- MODULE Spec2Model ----
(***************************************************************************)
(* Grid pathfinding of src/src/pathfinding/pathfinding_ops.cpp as a state  *)
(* machine.  A behaviour is one caller working on one grid snapshot: Init  *)
(* fixes the caller's buffers, a Call action enters an entry point with    *)
(* the arguments the caller picks (validation, scratch allocation, seeding *)
(* of the frontier), a Step action is one iteration of the entry point's   *)
(* while-loop (pop, goal test, closed/stale test, relaxation of every      *)
(* neighbour), and the entry point returns by writing ret[op].             *)
(*                                                                         *)
(* Numbers.  A float of the code is modelled exactly as <<inf, a, b>>:     *)
(* INF when inf = 1, otherwise the real (a + b*sqrt(2)) / Unit.  Cell      *)
(* costs are integers in units of 1/Unit.  Comparison is the comparison    *)
(* of the reals; float32 rounding is not modelled (on the grids explored   *)
(* two different values differ by far more than a float ulp).  Entries of  *)
(* the frontier with equal priority are popped in any order, which covers  *)
(* every heap layout std::priority_queue may produce.                      *)
(***************************************************************************)
EXTENDS Integers, Sequences, FiniteSets, Bags, TLC

VARIABLES
    width, height,      \* grid dimensions passed by the caller
    costs,              \* caller's Cost Field  (cell -> integer, unit 1/Unit)
    walkable,           \* caller's Walkable Field (cell -> integer)
    start, goal,        \* Vector2i <<x, y>> of the latest call
    goals,              \* PackedVector2Array of the latest call: sequence of
                        \* <<x, y>>, each component a float k / Unit given as k
    allow_diagonal,     \* arguments of the latest call
    heuristic_weight,
    op,                 \* entry point whose loop is running, "none" when idle
    cost_ptr,           \* the cost array the running A* reads
    g_cost, came_from, closed, open,   \* scratch of the running call
    ret,                \* entry point -> [done, val]
    dmap,               \* distance field handed to flow_field_from_dijkstra
    path,               \* path handed to simplify_path, path_to_vectors
                        \* (cell indices) or funnel_smooth (Vector2 points)
    blocking_value,     \* grid value funnel_smooth treats as blocking
    cell_size,          \* cell size handed to path_to_vectors, in units of 1/Unit
    starts,             \* PackedVector2Array of starts handed to astar_batch
    max_cost,           \* budget handed to reachable_cells, in units of 1/Unit
    outer,              \* entry point that is calling other entry points in a
                        \* loop ("astar_batch"), "none" otherwise
    result,             \* the result array a running entry point is appending to
    walk                \* cells the caller has visited following a flow field

snapshot == <<width, height, costs, walkable>>
frame   == <<outer, result>>
buffers == <<snapshot, walk, frame>>
post_args == <<blocking_value, cell_size>>
other_args == <<dmap, path, starts, max_cost, post_args>>
args    == <<start, goal, goals, allow_diagonal, heuristic_weight, other_args>>
scratch == <<cost_ptr, g_cost, came_from, closed, open>>
vars    == <<buffers, args, op, scratch, ret>>

----------------------------------------------------------------------------
(* Bounds of the model *)

\* cell costs are multiples of 1/Unit
Unit == 2
\* largest grid explored by the general specifications
MaxWidth == 3
\* largest width of the walkable fields explored for Jump Point Search alone
MaxJpsWidth == 4
\* longest path handed to simplify_path
MaxLen == 4

----------------------------------------------------------------------------
(* Arithmetic on a + b*sqrt(2), with INF: exact below 2^24 / Unit *)

INF == <<1, 0, 0>>
SQRT2 == <<0, 0, 1>>
Num(a, b) == <<0, a, b>>
Zero == Num(0, 0)
IsInf(x) == x[1] = 1

\* a float (IEEE-754 binary32) carries 24 significant bits
FloatMantissa == 16777216

\* the spacing of the floats around a >= 0, counted like a in 1/Unit
RECURSIVE Ulp(_, _)
Ulp(a, u) == IF a \div u < FloatMantissa THEN u ELSE Ulp(a, 2 * u)

\* round to nearest, ties to even: what a float keeps of the sum a >= 0
RoundF(a) ==
    LET u == Ulp(a, 1)
        q == a \div u
        r == a % u
    IN  IF 2 * r < u THEN q * u
        ELSE IF 2 * r > u THEN (q + 1) * u
        ELSE IF q % 2 = 0 THEN q * u ELSE (q + 1) * u

\* float + float; a sum without a sqrt(2) part is rounded to 24 bits, a sum
\* with one is kept exact
Add(x, y) ==
    IF IsInf(x) \/ IsInf(y) THEN INF
    ELSE IF x[3] + y[3] = 0 /\ x[2] + y[2] >= FloatMantissa
         THEN <<0, RoundF(x[2] + y[2]), 0>>
         ELSE <<0, x[2] + y[2], x[3] + y[3]>>

\* a plausible slip: the factor is applied twice, x * k + x * k
Scale_twice(x, k) == IF IsInf(x) THEN INF ELSE <<0, 2 * x[2] * k, 2 * x[3] * k>>

\* x * k for an integer k >= 0 (a cell cost or a heuristic weight)
Scale(x, k) == IF IsInf(x) THEN INF ELSE <<0, x[2] * k, x[3] * k>>

\* p < q * sqrt(2) over the integers
LessSqrt2(p, q) ==
    IF p < 0
    THEN (q >= 0) \/ (p * p > 2 * q * q)
    ELSE (q > 0) /\ (p * p < 2 * q * q)

\* operator< on floats
Less(x, y) ==
    IF IsInf(x) THEN FALSE
    ELSE IF IsInf(y) THEN TRUE
    ELSE LessSqrt2(x[2] - y[2], y[3] - x[3])

Abs(n) == IF n < 0 THEN -n ELSE n
Max(a, b) == IF a > b THEN a ELSE b
Min(a, b) == IF a < b THEN a ELSE b

----------------------------------------------------------------------------
(* Helpers of the source *)

\* a plausible slip: Manhattan distance whatever the connectivity
heuristic_manhattan(x1, y1, x2, y2, diagonal) ==
    Num(Unit * (Abs(x2 - x1) + Abs(y2 - y1)), 0)

heuristic(x1, y1, x2, y2, diagonal) ==
    LET dx == Abs(x2 - x1)
        dy == Abs(y2 - y1)
    IN  IF diagonal
        THEN Num(Unit * (Max(dx, dy) - Min(dx, dy)), Unit * Min(dx, dy))
        ELSE Num(Unit * (dx + dy), 0)

\* a plausible slip: the start index is not appended when the walk reaches it
RECURSIVE WalkBack_nostart(_, _, _)
WalkBack_nostart(cf, start_idx, current) ==
    IF current # start_idx /\ current # -1
    THEN <<current>> \o WalkBack_nostart(cf, start_idx, cf[current])
    ELSE <<>>

RECURSIVE WalkBack(_, _, _)
WalkBack(cf, start_idx, current) ==
    IF current # start_idx /\ current # -1
    THEN <<current>> \o WalkBack(cf, start_idx, cf[current])
    ELSE IF current = start_idx THEN <<start_idx>> ELSE <<>>

Reverse(s) == [i \in 1..Len(s) |-> s[Len(s) + 1 - i]]

\* a plausible slip: the walk from the goal back is returned unreversed
reconstruct_path_unreversed(cf, start_idx, goal_idx) == WalkBack(cf, start_idx, goal_idx)

reconstruct_path(cf, start_idx, goal_idx) == Reverse(WalkBack(cf, start_idx, goal_idx))

\* direction tables (0-based index d is d + 1 here)
dx4 == <<0, 1, 0, -1>>
dy4 == <<-1, 0, 1, 0>>
dx8 == <<0, 1, 1, 1, 0, -1, -1, -1>>
dy8 == <<-1, -1, 0, 1, 1, 1, 0, -1>>
\* cost8[d]: 1 -> <<Unit, 0>>/Unit, SQRT2 -> <<0, Unit>>/Unit; times a cell cost c
cost8(d, c) == IF d % 2 = 1 THEN Num(c, 0) ELSE Num(0, c)

InBounds(x, y) == ~(x < 0 \/ x >= width \/ y < 0 \/ y >= height)

\* a plausible slip: only cost 0 counts as blocked
BlockedOnlyZero(cell_cost) == cell_cost = 0
\* the blocked test on a cost: cost <= 0
Blocked(cell_cost) == cell_cost <= 0

\* std::priority_queue<PathNode, ..., std::greater<PathNode>>
PathNode(i, f) == [index |-> i, f_cost |-> f]
push(q, n) == q (+) SetToBag({n})
pop(q, n) == q (-) SetToBag({n})
empty(q) == BagToSet(q) = {}
\* a plausible slip: std::less instead of std::greater makes it a max-heap
top_max(q) == {n \in BagToSet(q) : \A m \in BagToSet(q) : ~Less(n.f_cost, m.f_cost)}
\* the entries top() may return: none of the others has a smaller f_cost
top(q) == {n \in BagToSet(q) : \A m \in BagToSet(q) : ~Less(m.f_cost, n.f_cost)}

NoRet == [done |-> FALSE, val |-> <<>>]
Returned(v) == [done |-> TRUE, val |-> v]
EntryPoints == {"astar_grid", "astar_uniform", "dijkstra_grid", "jps_grid", "dijkstra_map",
                "flow_field", "flow_field_multi", "flow_field_from_dijkstra",
                "simplify_path", "astar_batch", "reachable_cells", "path_cost",
                "is_reachable", "funnel_smooth", "path_to_vectors",
                "astar_grid_weighted"}

\* the scratch of a call dies with the call
NoScratch == <<>>
Discard ==
    /\ cost_ptr' = NoScratch /\ g_cost' = NoScratch /\ came_from' = NoScratch
    /\ closed' = NoScratch /\ open' = EmptyBag

\* static_cast<int> of a float k / Unit: truncation toward zero
ToInt(k) == IF k >= 0 THEN k \div Unit ELSE -((-k) \div Unit)
\* Vector2(x, y) of integers
Vector2(x, y) == <<x * Unit, y * Unit>>

----------------------------------------------------------------------------
(* Caller-side input families *)

Cells(w, h) == 0 .. (w * h - 1)

\* the in-bounds coordinates
InGrid(w, h) == {<<x, y>> : x \in 0 .. (w - 1), y \in 0 .. (h - 1)}
\* in-bounds coordinates plus one out-of-bounds coordinate per bounds test
Coords(w, h) == InGrid(w, h) \cup {<<-1, 0>>, <<w, 0>>, <<0, -1>>, <<0, h>>}

\* grids equal to base everywhere but on at most k cells, which take values of vals
Grids(w, h, base, vals, k) ==
    UNION {{[c \in Cells(w, h) |-> IF c \in S THEN a[c] ELSE base] : a \in [S -> vals]} :
           S \in {T \in SUBSET Cells(w, h) : Cardinality(T) <= k}}

\* cost values: negative and zero (blocked), 1/Unit, 1, 2
CostValues == {-1, 0, 1, Unit, 2 * Unit}
PassableCosts == {c \in CostValues : c > 0}

\* one base cost everywhere but at most one cell of any other value
WeightedGrids(w, h) ==
    UNION {Grids(w, h, base, CostValues, 1) : base \in PassableCosts}
\* cost 1 everywhere but at most k blocked cells
BlockedGrids(w, h, k) == Grids(w, h, Unit, {0}, k)

----------------------------------------------------------------------------
(* A*: astar_grid_weighted, entered through astar_grid or astar_uniform *)

AstarOps == {"astar_grid", "astar_grid_weighted", "astar_uniform"}

\* a plausible slip: the neighbour is written without the test new_g < g_cost[ni]
RECURSIVE AstarRelax_overwrite(_, _, _, _)
AstarRelax_overwrite(d, cur, cl, st) ==
    LET dir_count == IF allow_diagonal THEN 8 ELSE 4
        cx == cur % width
        cy == cur \div width
        nx == cx + (IF allow_diagonal THEN dx8[d] ELSE dx4[d])
        ny == cy + (IF allow_diagonal THEN dy8[d] ELSE dy4[d])
        ni == ny * width + nx
        cell_cost == cost_ptr[ni]
        move_cost == IF allow_diagonal THEN cost8(d, cell_cost) ELSE Num(cell_cost, 0)
        new_g == Add(st.g[cur], move_cost)
        h == Scale(heuristic(nx, ny, goal[1], goal[2], allow_diagonal), heuristic_weight)
    IN  IF d > dir_count THEN st
        ELSE IF ~InBounds(nx, ny) THEN AstarRelax_overwrite(d + 1, cur, cl, st)
        ELSE IF cl[ni] THEN AstarRelax_overwrite(d + 1, cur, cl, st)
        ELSE IF Blocked(cell_cost) THEN AstarRelax_overwrite(d + 1, cur, cl, st)
        ELSE AstarRelax_overwrite(d + 1, cur, cl,
               [g  |-> [st.g EXCEPT ![ni] = new_g],
                cf |-> [st.cf EXCEPT ![ni] = cur],
                q  |-> push(st.q, PathNode(ni, Add(new_g, h)))])

\* the for-loop over directions d .. dir_count of one expansion;
\* st = [g, cf, q] are g_cost, came_from and open while the loop runs
RECURSIVE AstarRelax(_, _, _, _)
AstarRelax(d, cur, cl, st) ==
    LET dir_count == IF allow_diagonal THEN 8 ELSE 4
        cx == cur % width
        cy == cur \div width
        nx == cx + (IF allow_diagonal THEN dx8[d] ELSE dx4[d])
        ny == cy + (IF allow_diagonal THEN dy8[d] ELSE dy4[d])
        ni == ny * width + nx
        cell_cost == cost_ptr[ni]
        move_cost == IF allow_diagonal THEN cost8(d, cell_cost) ELSE Num(cell_cost, 0)
        new_g == Add(st.g[cur], move_cost)
        h == Scale(heuristic(nx, ny, goal[1], goal[2], allow_diagonal), heuristic_weight)
    IN  IF d > dir_count THEN st
        ELSE IF ~InBounds(nx, ny) THEN AstarRelax(d + 1, cur, cl, st)
        ELSE IF cl[ni] THEN AstarRelax(d + 1, cur, cl, st)
        ELSE IF Blocked(cell_cost) THEN AstarRelax(d + 1, cur, cl, st)
        ELSE IF Less(new_g, st.g[ni])
             THEN AstarRelax(d + 1, cur, cl,
                    [g  |-> [st.g EXCEPT ![ni] = new_g],
                     cf |-> [st.cf EXCEPT ![ni] = cur],
                     q  |-> push(st.q, PathNode(ni, Add(new_g, h)))])
             ELSE AstarRelax(d + 1, cur, cl, st)

\* what astar_uniform builds from the walkable field
UniformCosts(w) == [i \in DOMAIN w |-> IF w[i] # 0 THEN Unit ELSE 0]

\* entry: bounds and blocked checks, then scratch allocation and the first push
astar_grid_weighted(name, cp, s, g, diag, hw) ==
    LET start_idx == s[2] * width + s[1]
        goal_idx  == g[2] * width + g[1]
        size      == width * height
    IN  /\ start' = s /\ goal' = g /\ allow_diagonal' = diag /\ heuristic_weight' = hw
        /\ IF ~InBounds(s[1], s[2]) \/ ~InBounds(g[1], g[2])
           THEN /\ ret' = [ret EXCEPT ![name] = Returned(<<>>)]
                /\ UNCHANGED <<op, scratch>>
           ELSE IF Blocked(cp[start_idx]) \/ Blocked(cp[goal_idx])
           THEN /\ ret' = [ret EXCEPT ![name] = Returned(<<>>)]
                /\ UNCHANGED <<op, scratch>>
           ELSE /\ op' = name
                /\ cost_ptr' = cp
                /\ g_cost' = [i \in 0 .. (size - 1) |-> IF i = start_idx THEN Zero ELSE INF]
                /\ came_from' = [i \in 0 .. (size - 1) |-> -1]
                /\ closed' = [i \in 0 .. (size - 1) |-> FALSE]
                /\ open' = SetToBag({PathNode(start_idx,
                               Scale(heuristic(s[1], s[2], g[1], g[2], diag), hw))})
                /\ UNCHANGED ret

\* the caller calls astar_grid(costs, width, height, s, g, diag)
AstarCall(s, g, diag) ==
    /\ op = "none"
    /\ ~ret["astar_grid"].done
    /\ astar_grid_weighted("astar_grid", costs, s, g, diag, 1)
    /\ UNCHANGED <<buffers, goals, other_args>>

\* the caller calls astar_grid_weighted(costs, width, height, s, g, diag, hw)
WeightedCall(s, g, diag, hw) ==
    /\ op = "none"
    /\ ~ret["astar_grid_weighted"].done
    /\ astar_grid_weighted("astar_grid_weighted", costs, s, g, diag, hw)
    /\ UNCHANGED <<buffers, goals, other_args>>

\* the caller calls astar_uniform(walkable, width, height, s, g, diag)
UniformCall(s, g, diag) ==
    /\ op = "none"
    /\ ~ret["astar_uniform"].done
    /\ astar_grid_weighted("astar_uniform", UniformCosts(walkable), s, g, diag, 1)
    /\ UNCHANGED <<buffers, goals, other_args>>

\* a plausible slip: the popped cell is never marked closed
AstarStep_noclose ==
    /\ op \in AstarOps
    /\ ~empty(open)
    /\ \E current \in top(open) :
         LET start_idx == start[2] * width + start[1]
             goal_idx  == goal[2] * width + goal[1]
             popped    == pop(open, current)
         IN  IF current.index = goal_idx
             THEN /\ ret' = [ret EXCEPT ![op] =
                                Returned(reconstruct_path(came_from, start_idx, goal_idx))]
                  /\ op' = "none"
                  /\ Discard
             ELSE IF closed[current.index]
             THEN /\ open' = popped
                  /\ UNCHANGED <<op, ret, cost_ptr, g_cost, came_from, closed>>
             ELSE LET st == AstarRelax(1, current.index, closed,
                                       [g |-> g_cost, cf |-> came_from, q |-> popped])
                  IN  /\ closed' = closed
                      /\ g_cost' = st.g
                      /\ came_from' = st.cf
                      /\ open' = st.q
                      /\ UNCHANGED <<op, ret, cost_ptr>>
    /\ UNCHANGED <<buffers, args>>

\* one iteration of while (!open.empty())
AstarStep ==
    /\ op \in AstarOps
    /\ ~empty(open)
    /\ \E current \in top(open) :
         LET start_idx == start[2] * width + start[1]
             goal_idx  == goal[2] * width + goal[1]
             popped    == pop(open, current)
         IN  IF current.index = goal_idx
             THEN /\ ret' = [ret EXCEPT ![op] =
                                Returned(reconstruct_path(came_from, start_idx, goal_idx))]
                  /\ op' = "none"
                  /\ Discard
             ELSE IF closed[current.index]
             THEN /\ open' = popped
                  /\ UNCHANGED <<op, ret, cost_ptr, g_cost, came_from, closed>>
             ELSE LET cl == [closed EXCEPT ![current.index] = TRUE]
                      st == AstarRelax(1, current.index, cl,
                                       [g |-> g_cost, cf |-> came_from, q |-> popped])
                  IN  /\ closed' = cl
                      /\ g_cost' = st.g
                      /\ came_from' = st.cf
                      /\ open' = st.q
                      /\ UNCHANGED <<op, ret, cost_ptr>>
    /\ UNCHANGED <<buffers, args>>

\* the loop ends with the frontier exhausted: return empty_result
AstarExhausted ==
    /\ op \in AstarOps
    /\ empty(open)
    /\ ret' = [ret EXCEPT ![op] = Returned(<<>>)]
    /\ op' = "none"
    /\ Discard
    /\ UNCHANGED <<buffers, args>>

----------------------------------------------------------------------------
(* Dijkstra: dijkstra_grid, start to the nearest of several goals *)

\* the goal_set built from the goals array
GoalSet(gs) ==
    {ToInt(gs[i][2]) * width + ToInt(gs[i][1]) :
        i \in {j \in 1 .. Len(gs) : InBounds(ToInt(gs[j][1]), ToInt(gs[j][2]))}}

\* a plausible slip: every step costs 1, the cell's cost is only tested
RECURSIVE DijkstraRelax_unitcost(_, _, _)
DijkstraRelax_unitcost(d, cur, st) ==
    LET cx == cur % width
        cy == cur \div width
        nx == cx + dx4[d]
        ny == cy + dy4[d]
        ni == ny * width + nx
        cell_cost == costs[ni]
        new_g == Add(st.g[cur], Num(Unit, 0))
    IN  IF d > 4 THEN st
        ELSE IF ~InBounds(nx, ny) THEN DijkstraRelax_unitcost(d + 1, cur, st)
        ELSE IF Blocked(cell_cost) THEN DijkstraRelax_unitcost(d + 1, cur, st)
        ELSE IF Less(new_g, st.g[ni])
             THEN DijkstraRelax_unitcost(d + 1, cur,
                    [g  |-> [st.g EXCEPT ![ni] = new_g],
                     cf |-> [st.cf EXCEPT ![ni] = cur],
                     q  |-> push(st.q, PathNode(ni, new_g))])
             ELSE DijkstraRelax_unitcost(d + 1, cur, st)

\* a plausible slip: came_from is written before the test new_g < g_cost[ni]
RECURSIVE DijkstraRelax_parentfirst(_, _, _)
DijkstraRelax_parentfirst(d, cur, st) ==
    LET cx == cur % width
        cy == cur \div width
        nx == cx + dx4[d]
        ny == cy + dy4[d]
        ni == ny * width + nx
        cell_cost == costs[ni]
        new_g == Add(st.g[cur], Num(cell_cost, 0))
    IN  IF d > 4 THEN st
        ELSE IF ~InBounds(nx, ny) THEN DijkstraRelax_parentfirst(d + 1, cur, st)
        ELSE IF Blocked(cell_cost) THEN DijkstraRelax_parentfirst(d + 1, cur, st)
        ELSE IF Less(new_g, st.g[ni])
             THEN DijkstraRelax_parentfirst(d + 1, cur,
                    [g  |-> [st.g EXCEPT ![ni] = new_g],
                     cf |-> [st.cf EXCEPT ![ni] = cur],
                     q  |-> push(st.q, PathNode(ni, new_g))])
             ELSE DijkstraRelax_parentfirst(d + 1, cur,
                    [st EXCEPT !.cf = [st.cf EXCEPT ![ni] = cur]])

\* the for-loop over the 4 directions of one expansion; st = [g, cf, q]
RECURSIVE DijkstraRelax(_, _, _)
DijkstraRelax(d, cur, st) ==
    LET cx == cur % width
        cy == cur \div width
        nx == cx + dx4[d]
        ny == cy + dy4[d]
        ni == ny * width + nx
        cell_cost == costs[ni]
        new_g == Add(st.g[cur], Num(cell_cost, 0))
    IN  IF d > 4 THEN st
        ELSE IF ~InBounds(nx, ny) THEN DijkstraRelax(d + 1, cur, st)
        ELSE IF Blocked(cell_cost) THEN DijkstraRelax(d + 1, cur, st)
        ELSE IF Less(new_g, st.g[ni])
             THEN DijkstraRelax(d + 1, cur,
                    [g  |-> [st.g EXCEPT ![ni] = new_g],
                     cf |-> [st.cf EXCEPT ![ni] = cur],
                     q  |-> push(st.q, PathNode(ni, new_g))])
             ELSE DijkstraRelax(d + 1, cur, st)

\* the caller calls dijkstra_grid(costs, width, height, s, gs)
DijkstraCall(s, gs) ==
    LET start_idx == s[2] * width + s[1]
        size      == width * height
    IN  /\ op = "none"
        /\ ~ret["dijkstra_grid"].done
        /\ start' = s /\ goals' = gs
        /\ IF ~InBounds(s[1], s[2])
           THEN /\ ret' = [ret EXCEPT !["dijkstra_grid"] = Returned(<<>>)]
                /\ UNCHANGED <<op, scratch>>
           ELSE IF Blocked(costs[start_idx])
           THEN /\ ret' = [ret EXCEPT !["dijkstra_grid"] = Returned(<<>>)]
                /\ UNCHANGED <<op, scratch>>
           ELSE IF GoalSet(gs) = {}
           THEN /\ ret' = [ret EXCEPT !["dijkstra_grid"] = Returned(<<>>)]
                /\ UNCHANGED <<op, scratch>>
           ELSE /\ op' = "dijkstra_grid"
                /\ g_cost' = [i \in 0 .. (size - 1) |-> IF i = start_idx THEN Zero ELSE INF]
                /\ came_from' = [i \in 0 .. (size - 1) |-> -1]
                /\ open' = SetToBag({PathNode(start_idx, Zero)})
                /\ UNCHANGED <<ret, cost_ptr, closed>>
        /\ UNCHANGED <<buffers, goal, allow_diagonal, heuristic_weight, other_args>>

\* one iteration of while (!open.empty())
DijkstraStep ==
    /\ op = "dijkstra_grid"
    /\ ~empty(open)
    /\ \E current \in top(open) :
         LET start_idx == start[2] * width + start[1]
             popped    == pop(open, current)
         IN  IF current.index \in GoalSet(goals)
             THEN /\ ret' = [ret EXCEPT ![op] =
                                Returned(reconstruct_path(came_from, start_idx, current.index))]
                  /\ op' = "none"
                  /\ Discard
             ELSE IF Less(g_cost[current.index], current.f_cost)
             THEN /\ open' = popped
                  /\ UNCHANGED <<op, ret, cost_ptr, g_cost, came_from, closed>>
             ELSE LET st == DijkstraRelax(1, current.index,
                                          [g |-> g_cost, cf |-> came_from, q |-> popped])
                  IN  /\ g_cost' = st.g
                      /\ came_from' = st.cf
                      /\ open' = st.q
                      /\ UNCHANGED <<op, ret, cost_ptr, closed>>
    /\ UNCHANGED <<buffers, args>>

\* the loop ends with the frontier exhausted: return empty_result
DijkstraExhausted ==
    /\ op = "dijkstra_grid"
    /\ empty(open)
    /\ ret' = [ret EXCEPT ![op] = Returned(<<>>)]
    /\ op' = "none"
    /\ Discard
    /\ UNCHANGED <<buffers, args>>

----------------------------------------------------------------------------
(* Flow fields: flow_field_from_dijkstra, entered directly or through      *)
(* flow_field / flow_field_multi                                           *)

\* Vector2(0, 0)
ZeroVector == <<0, 0, 1>>
\* Vector2(best_dx / len, best_dy / len) with len = sqrt(best_dx^2 + best_dy^2):
\* the vector <<x, y, l>> stands for (x / sqrt(l), y / sqrt(l))
Normalized(best_dx, best_dy) ==
    <<best_dx, best_dy, best_dx * best_dx + best_dy * best_dy>>

\* a plausible slip: best_dist is not updated, the last improving neighbour wins
RECURSIVE FlowScan_lastbetter(_, _, _, _)
FlowScan_lastbetter(d, i, dist, best) ==
    LET nx == (i % width) + dx8[d]
        ny == (i \div width) + dy8[d]
        ni == ny * width + nx
    IN  IF d > 8 THEN best
        ELSE IF nx < 0 \/ nx >= width \/ ny < 0 \/ ny >= height
             THEN FlowScan_lastbetter(d + 1, i, dist, best)
        ELSE IF Less(dist[ni], best.best_dist)
             THEN FlowScan_lastbetter(d + 1, i, dist,
                    [best_dist |-> best.best_dist, best_dx |-> dx8[d], best_dy |-> dy8[d]])
             ELSE FlowScan_lastbetter(d + 1, i, dist, best)

\* a plausible slip: <= instead of <, a neighbour at the same distance wins
RECURSIVE FlowScan_lesseq(_, _, _, _)
FlowScan_lesseq(d, i, dist, best) ==
    LET nx == (i % width) + dx8[d]
        ny == (i \div width) + dy8[d]
        ni == ny * width + nx
    IN  IF d > 8 THEN best
        ELSE IF nx < 0 \/ nx >= width \/ ny < 0 \/ ny >= height
             THEN FlowScan_lesseq(d + 1, i, dist, best)
        ELSE IF ~Less(best.best_dist, dist[ni])
             THEN FlowScan_lesseq(d + 1, i, dist,
                    [best_dist |-> dist[ni], best_dx |-> dx8[d], best_dy |-> dy8[d]])
             ELSE FlowScan_lesseq(d + 1, i, dist, best)

\* the loop over the 8 directions of cell i from direction d on;
\* best = [best_dist, best_dx, best_dy]
RECURSIVE FlowScan(_, _, _, _)
FlowScan(d, i, dist, best) ==
    LET nx == (i % width) + dx8[d]
        ny == (i \div width) + dy8[d]
        ni == ny * width + nx
    IN  IF d > 8 THEN best
        ELSE IF nx < 0 \/ nx >= width \/ ny < 0 \/ ny >= height
             THEN FlowScan(d + 1, i, dist, best)
        ELSE IF Less(dist[ni], best.best_dist)
             THEN FlowScan(d + 1, i, dist,
                    [best_dist |-> dist[ni], best_dx |-> dx8[d], best_dy |-> dy8[d]])
             ELSE FlowScan(d + 1, i, dist, best)

\* the body of the loop over the cells: flow_ptr[i]
FlowCell(i, dist) ==
    IF ~Less(dist[i], INF) THEN ZeroVector
    ELSE LET best == FlowScan(1, i, dist,
                              [best_dist |-> dist[i], best_dx |-> 0, best_dy |-> 0])
         IN  IF best.best_dx # 0 \/ best.best_dy # 0
             THEN Normalized(best.best_dx, best.best_dy)
             ELSE ZeroVector

flow_field_from_dijkstra(dist) ==
    [i \in 0 .. (width * height - 1) |-> FlowCell(i, dist)]

\* the caller calls flow_field_from_dijkstra(d, width, height)
FromDijkstraCall(d) ==
    /\ op = "none"
    /\ ~ret["flow_field_from_dijkstra"].done
    /\ dmap' = d
    /\ ret' = [ret EXCEPT !["flow_field_from_dijkstra"] =
                  Returned(flow_field_from_dijkstra(d))]
    /\ UNCHANGED <<buffers, start, goal, goals, allow_diagonal, heuristic_weight,
                   path, starts, max_cost, post_args, op, scratch>>

----------------------------------------------------------------------------
(* dijkstra_map: the distance field of a goal set *)

\* a plausible slip: goals are seeded without looking at their cost
RECURSIVE MapSeed_anycost(_, _, _)
MapSeed_anycost(gs, i, st) ==
    IF i > Len(gs) THEN st
    ELSE LET gx == ToInt(gs[i][1])
             gy == ToInt(gs[i][2])
             gi == gy * width + gx
         IN  IF gx >= 0 /\ gx < width /\ gy >= 0 /\ gy < height
             THEN MapSeed_anycost(gs, i + 1,
                    [g |-> [st.g EXCEPT ![gi] = Zero],
                     q |-> push(st.q, PathNode(gi, Zero))])
             ELSE MapSeed_anycost(gs, i + 1, st)

\* the loop "Initialize goals" from goal i on; st = [g, q]
RECURSIVE MapSeed(_, _, _)
MapSeed(gs, i, st) ==
    IF i > Len(gs) THEN st
    ELSE LET gx == ToInt(gs[i][1])
             gy == ToInt(gs[i][2])
             gi == gy * width + gx
         IN  IF gx >= 0 /\ gx < width /\ gy >= 0 /\ gy < height
             THEN IF costs[gi] > 0
                  THEN MapSeed(gs, i + 1,
                         [g |-> [st.g EXCEPT ![gi] = Zero],
                          q |-> push(st.q, PathNode(gi, Zero))])
                  ELSE MapSeed(gs, i + 1, st)
             ELSE MapSeed(gs, i + 1, st)

\* a plausible slip: a step is charged the cost of the cell it leaves
RECURSIVE MapRelax_costleft(_, _, _)
MapRelax_costleft(d, cur, st) ==
    LET cx == cur % width
        cy == cur \div width
        nx == cx + dx4[d]
        ny == cy + dy4[d]
        ni == ny * width + nx
        cell_cost == costs[ni]
        new_dist == Add(st.g[cur], Num(costs[cur], 0))
    IN  IF d > 4 THEN st
        ELSE IF nx < 0 \/ nx >= width \/ ny < 0 \/ ny >= height
             THEN MapRelax_costleft(d + 1, cur, st)
        ELSE IF cell_cost <= 0 THEN MapRelax_costleft(d + 1, cur, st)
        ELSE IF Less(new_dist, st.g[ni])
             THEN MapRelax_costleft(d + 1, cur,
                    [g |-> [st.g EXCEPT ![ni] = new_dist],
                     q |-> push(st.q, PathNode(ni, new_dist))])
             ELSE MapRelax_costleft(d + 1, cur, st)

\* the for-loop over the 4 directions of one expansion; st = [g, q]
RECURSIVE MapRelax(_, _, _)
MapRelax(d, cur, st) ==
    LET cx == cur % width
        cy == cur \div width
        nx == cx + dx4[d]
        ny == cy + dy4[d]
        ni == ny * width + nx
        cell_cost == costs[ni]
        new_dist == Add(st.g[cur], Num(cell_cost, 0))
    IN  IF d > 4 THEN st
        ELSE IF nx < 0 \/ nx >= width \/ ny < 0 \/ ny >= height
             THEN MapRelax(d + 1, cur, st)
        ELSE IF cell_cost <= 0 THEN MapRelax(d + 1, cur, st)
        ELSE IF Less(new_dist, st.g[ni])
             THEN MapRelax(d + 1, cur,
                    [g |-> [st.g EXCEPT ![ni] = new_dist],
                     q |-> push(st.q, PathNode(ni, new_dist))])
             ELSE MapRelax(d + 1, cur, st)

\* the caller calls dijkstra_map(costs, width, height, gs); dist_ptr is g_cost
\* the entry points that run dijkstra_map
MapOps == {"dijkstra_map", "flow_field", "flow_field_multi"}

\* entry of dijkstra_map on behalf of the entry point name: dist_ptr is g_cost
dijkstra_map(name, gs) ==
    LET size   == width * height
        seeded == MapSeed(gs, 1, [g |-> [i \in 0 .. (size - 1) |-> INF], q |-> EmptyBag])
    IN  /\ op = "none"
        /\ ~ret[name].done
        /\ goals' = gs
        /\ op' = name
        /\ g_cost' = seeded.g
        /\ open' = seeded.q
        /\ UNCHANGED <<buffers, start, goal, allow_diagonal, heuristic_weight,
                       other_args, ret, cost_ptr, came_from, closed>>

\* the caller calls dijkstra_map(costs, width, height, gs)
MapCall(gs) == dijkstra_map("dijkstra_map", gs)

\* the caller calls flow_field_multi(costs, width, height, gs)
FlowMultiCall(gs) == dijkstra_map("flow_field_multi", gs)

\* the caller calls flow_field(costs, width, height, g), which goes through
\* dijkstra_map_single
FlowCall(g) == dijkstra_map("flow_field", <<Vector2(g[1], g[2])>>)

\* the caller calls dijkstra_map_single(costs, width, height, g)
MapSingleCall(g) == MapCall(<<Vector2(g[1], g[2])>>)

\* one iteration of while (!open.empty())
MapStep ==
    /\ op \in MapOps
    /\ ~empty(open)
    /\ \E current \in top(open) :
         LET popped == pop(open, current)
         IN  IF Less(g_cost[current.index], current.f_cost)
             THEN /\ open' = popped
                  /\ UNCHANGED g_cost
             ELSE LET st == MapRelax(1, current.index, [g |-> g_cost, q |-> popped])
                  IN  /\ g_cost' = st.g
                      /\ open' = st.q
    /\ UNCHANGED <<buffers, args, op, ret, cost_ptr, came_from, closed>>

\* the loop ends: dijkstra_map returns result; flow_field and flow_field_multi
\* hand it as dmap to flow_field_from_dijkstra and return its result
MapReturn ==
    /\ op \in MapOps
    /\ empty(open)
    /\ IF op = "dijkstra_map"
       THEN /\ ret' = [ret EXCEPT ![op] = Returned(g_cost)]
            /\ UNCHANGED dmap
       ELSE /\ dmap' = g_cost
            /\ ret' = [ret EXCEPT ![op] = Returned(flow_field_from_dijkstra(g_cost))]
    /\ op' = "none"
    /\ Discard
    /\ UNCHANGED <<buffers, start, goal, goals, allow_diagonal, heuristic_weight,
                   path, starts, max_cost, post_args>>

----------------------------------------------------------------------------
(* Jump Point Search: jps_internal::is_walkable, jps_internal::jump, jps_grid *)

\* a plausible slip: the bounds are tested but the grid is not consulted
is_walkable_inbounds(grid, x, y) ==
    ~(x < 0 \/ x >= width \/ y < 0 \/ y >= height)

is_walkable(grid, x, y) ==
    IF x < 0 \/ x >= width \/ y < 0 \/ y >= height THEN FALSE
    ELSE grid[y * width + x] # 0

\* a plausible slip: the jump stops at the first cell, as an A* expansion does
jump_single_step(grid, x, y, dx, dy, goal_x, goal_y) ==
    IF ~is_walkable(grid, x + dx, y + dy) THEN -1
    ELSE (y + dy) * width + (x + dx)

\* the index of the jump point found from (x, y) in direction (dx, dy), or -1
RECURSIVE jump(_, _, _, _, _, _, _)
jump(grid, x, y, dx, dy, goal_x, goal_y) ==
    LET nx == x + dx
        ny == y + dy
    IN  IF ~is_walkable(grid, nx, ny) THEN -1
        ELSE IF nx = goal_x /\ ny = goal_y THEN ny * width + nx
        ELSE IF dx # 0 /\ dy # 0
             THEN IF \/ (~is_walkable(grid, x, ny) /\ is_walkable(grid, nx, ny + dy))
                     \/ (~is_walkable(grid, nx, y) /\ is_walkable(grid, nx + dx, ny))
                  THEN ny * width + nx
                  ELSE IF \/ jump(grid, nx, ny, dx, 0, goal_x, goal_y) # -1
                          \/ jump(grid, nx, ny, 0, dy, goal_x, goal_y) # -1
                  THEN ny * width + nx
                  ELSE jump(grid, nx, ny, dx, dy, goal_x, goal_y)
        ELSE IF dx # 0
             THEN IF \/ (~is_walkable(grid, nx, y - 1) /\ is_walkable(grid, nx + dx, y - 1))
                     \/ (~is_walkable(grid, nx, y + 1) /\ is_walkable(grid, nx + dx, y + 1))
                  THEN ny * width + nx
                  ELSE jump(grid, nx, ny, dx, dy, goal_x, goal_y)
        ELSE IF \/ (~is_walkable(grid, x - 1, ny) /\ is_walkable(grid, x - 1, ny + dy))
                \/ (~is_walkable(grid, x + 1, ny) /\ is_walkable(grid, x + 1, ny + dy))
             THEN ny * width + nx
             ELSE jump(grid, nx, ny, dx, dy, goal_x, goal_y)

\* pdx / std::abs(pdx) for pdx # 0, and 0 otherwise
Sign(n) == IF n > 0 THEN 1 ELSE IF n < 0 THEN -1 ELSE 0

\* the directions vector built for the node (cx, cy) reached from parent
Directions(grid, cx, cy, parent) ==
    LET pdx == IF parent = -1 THEN 0 ELSE Sign(cx - (parent % width))
        pdy == IF parent = -1 THEN 0 ELSE Sign(cy - (parent \div width))
    IN  IF parent = -1
        THEN [d \in 1 .. 8 |-> <<dx8[d], dy8[d]>>]
        ELSE IF pdx # 0 /\ pdy # 0
        THEN <<<<pdx, pdy>>, <<pdx, 0>>, <<0, pdy>>>>
             \o (IF ~is_walkable(grid, cx - pdx, cy) THEN <<<<-pdx, pdy>>>> ELSE <<>>)
             \o (IF ~is_walkable(grid, cx, cy - pdy) THEN <<<<pdx, -pdy>>>> ELSE <<>>)
        ELSE IF pdx # 0
        THEN <<<<pdx, 0>>>>
             \o (IF ~is_walkable(grid, cx, cy - 1) THEN <<<<pdx, -1>>>> ELSE <<>>)
             \o (IF ~is_walkable(grid, cx, cy + 1) THEN <<<<pdx, 1>>>> ELSE <<>>)
        ELSE IF pdy # 0
        THEN <<<<0, pdy>>>>
             \o (IF ~is_walkable(grid, cx - 1, cy) THEN <<<<-1, pdy>>>> ELSE <<>>)
             \o (IF ~is_walkable(grid, cx + 1, cy) THEN <<<<1, pdy>>>> ELSE <<>>)
        ELSE <<>>

\* std::sqrt((jx - cx)^2 + (jy - cy)^2) for the straight segments a jump walks
SegmentLength(cx, cy, jx, jy) ==
    CASE jx = cx \/ jy = cy -> Num(Unit * (Abs(jx - cx) + Abs(jy - cy)), 0)
      [] jx # cx /\ Abs(jx - cx) = Abs(jy - cy) -> Num(0, Unit * Abs(jx - cx))

\* the for-loop over directions i, i + 1, ... of one expansion; st = [g, cf, q]
RECURSIVE JpsRelax(_, _, _, _, _)
JpsRelax(i, dirs, cur, cl, st) ==
    LET cx == cur % width
        cy == cur \div width
        jump_idx == jump(walkable, cx, cy, dirs[i][1], dirs[i][2], goal[1], goal[2])
        jx == jump_idx % width
        jy == jump_idx \div width
        new_g == Add(st.g[cur], SegmentLength(cx, cy, jx, jy))
        h == heuristic(jx, jy, goal[1], goal[2], TRUE)
    IN  IF i > Len(dirs) THEN st
        ELSE IF jump_idx = -1 THEN JpsRelax(i + 1, dirs, cur, cl, st)
        ELSE IF cl[jump_idx] THEN JpsRelax(i + 1, dirs, cur, cl, st)
        ELSE IF Less(new_g, st.g[jump_idx])
             THEN JpsRelax(i + 1, dirs, cur, cl,
                    [g  |-> [st.g EXCEPT ![jump_idx] = new_g],
                     cf |-> [st.cf EXCEPT ![jump_idx] = cur],
                     q  |-> push(st.q, PathNode(jump_idx, Add(new_g, h)))])
             ELSE JpsRelax(i + 1, dirs, cur, cl, st)

\* a plausible slip: the walkable test covers the goal only
JpsCall_nostartcheck(s, g) ==
    LET start_idx == s[2] * width + s[1]
        goal_idx  == g[2] * width + g[1]
        size      == width * height
    IN  /\ op = "none"
        /\ ~ret["jps_grid"].done
        /\ start' = s /\ goal' = g
        /\ IF ~InBounds(s[1], s[2]) \/ ~InBounds(g[1], g[2])
           THEN /\ ret' = [ret EXCEPT !["jps_grid"] = Returned(<<>>)]
                /\ UNCHANGED <<op, scratch>>
           ELSE IF walkable[goal_idx] = 0
           THEN /\ ret' = [ret EXCEPT !["jps_grid"] = Returned(<<>>)]
                /\ UNCHANGED <<op, scratch>>
           ELSE /\ op' = "jps_grid"
                /\ g_cost' = [i \in 0 .. (size - 1) |-> IF i = start_idx THEN Zero ELSE INF]
                /\ came_from' = [i \in 0 .. (size - 1) |-> -1]
                /\ closed' = [i \in 0 .. (size - 1) |-> FALSE]
                /\ open' = SetToBag({PathNode(start_idx,
                               heuristic(s[1], s[2], g[1], g[2], TRUE))})
                /\ UNCHANGED <<ret, cost_ptr>>
        /\ UNCHANGED <<buffers, goals, allow_diagonal, heuristic_weight, other_args>>

\* the caller calls jps_grid(walkable, width, height, s, g)
JpsCall(s, g) ==
    LET start_idx == s[2] * width + s[1]
        goal_idx  == g[2] * width + g[1]
        size      == width * height
    IN  /\ op = "none"
        /\ ~ret["jps_grid"].done
        /\ start' = s /\ goal' = g
        /\ IF ~InBounds(s[1], s[2]) \/ ~InBounds(g[1], g[2])
           THEN /\ ret' = [ret EXCEPT !["jps_grid"] = Returned(<<>>)]
                /\ UNCHANGED <<op, scratch>>
           ELSE IF walkable[start_idx] = 0 \/ walkable[goal_idx] = 0
           THEN /\ ret' = [ret EXCEPT !["jps_grid"] = Returned(<<>>)]
                /\ UNCHANGED <<op, scratch>>
           ELSE /\ op' = "jps_grid"
                /\ g_cost' = [i \in 0 .. (size - 1) |-> IF i = start_idx THEN Zero ELSE INF]
                /\ came_from' = [i \in 0 .. (size - 1) |-> -1]
                /\ closed' = [i \in 0 .. (size - 1) |-> FALSE]
                /\ open' = SetToBag({PathNode(start_idx,
                               heuristic(s[1], s[2], g[1], g[2], TRUE))})
                /\ UNCHANGED <<ret, cost_ptr>>
        /\ UNCHANGED <<buffers, goals, allow_diagonal, heuristic_weight, other_args>>

\* one iteration of while (!open.empty())
JpsStep ==
    /\ op = "jps_grid"
    /\ ~empty(open)
    /\ \E current \in top(open) :
         LET start_idx == start[2] * width + start[1]
             goal_idx  == goal[2] * width + goal[1]
             popped    == pop(open, current)
         IN  IF current.index = goal_idx
             THEN /\ ret' = [ret EXCEPT ![op] =
                                Returned(reconstruct_path(came_from, start_idx, goal_idx))]
                  /\ op' = "none"
                  /\ Discard
             ELSE IF closed[current.index]
             THEN /\ open' = popped
                  /\ UNCHANGED <<op, ret, cost_ptr, g_cost, came_from, closed>>
             ELSE LET cl == [closed EXCEPT ![current.index] = TRUE]
                      dirs == Directions(walkable, current.index % width,
                                         current.index \div width,
                                         came_from[current.index])
                      st == JpsRelax(1, dirs, current.index, cl,
                                     [g |-> g_cost, cf |-> came_from, q |-> popped])
                  IN  /\ closed' = cl
                      /\ g_cost' = st.g
                      /\ came_from' = st.cf
                      /\ open' = st.q
                      /\ UNCHANGED <<op, ret, cost_ptr>>
    /\ UNCHANGED <<buffers, args>>

\* the loop ends with the frontier exhausted: return empty_result
JpsExhausted ==
    /\ op = "jps_grid"
    /\ empty(open)
    /\ ret' = [ret EXCEPT ![op] = Returned(<<>>)]
    /\ op' = "none"
    /\ Discard
    /\ UNCHANGED <<buffers, args>>

----------------------------------------------------------------------------
(* Path post-processing: simplify_path *)

\* int a % w and a / w for a >= 0. Division by zero is undefined behaviour:
\* the build either traps (see Trapped) or, where the divide instruction
\* does not trap, yields quotient 0 and remainder a
Rem(a, w) == IF w = 0 THEN a ELSE a % w
Quot(a, w) == IF w = 0 THEN 0 ELSE a \div w

\* value of op after a division trap: the process was killed inside the call
Trapped == {"simplify_path: SIGFPE", "path_to_vectors: SIGFPE"}

\* a plausible slip: a turn is recognised by the change of dx alone
RECURSIVE SimplifyLoop_dxonly(_, _, _)
SimplifyLoop_dxonly(src, w, i) ==
    IF i > Len(src) - 1 THEN <<>>
    ELSE LET prev_x == Rem(src[i - 1], w)
             curr_x == Rem(src[i], w)
             next_x == Rem(src[i + 1], w)
             dx1 == curr_x - prev_x
             dx2 == next_x - curr_x
         IN  (IF dx1 # dx2 THEN <<src[i]>> ELSE <<>>)
             \o SimplifyLoop_dxonly(src, w, i + 1)

\* the loop over the interior points i, i + 1, ..., n - 1 (1-based): the
\* points appended to result
RECURSIVE SimplifyLoop(_, _, _)
SimplifyLoop(src, w, i) ==
    IF i > Len(src) - 1 THEN <<>>
    ELSE LET prev_x == Rem(src[i - 1], w)
             prev_y == Quot(src[i - 1], w)
             curr_x == Rem(src[i], w)
             curr_y == Quot(src[i], w)
             next_x == Rem(src[i + 1], w)
             next_y == Quot(src[i + 1], w)
             dx1 == curr_x - prev_x
             dy1 == curr_y - prev_y
             dx2 == next_x - curr_x
             dy2 == next_y - curr_y
         IN  (IF dx1 # dx2 \/ dy1 # dy2 THEN <<src[i]>> ELSE <<>>)
             \o SimplifyLoop(src, w, i + 1)

simplify_path(p, w) ==
    IF Len(p) < 3 THEN p
    ELSE <<p[1]>> \o SimplifyLoop(p, w, 2) \o <<p[Len(p)]>>

\* the caller calls simplify_path(p, width)
SimplifyCall(p) ==
    /\ op = "none"
    /\ path' = p
    /\ \/ /\ ret' = [ret EXCEPT !["simplify_path"] = Returned(simplify_path(p, width))]
          /\ UNCHANGED op
       \/ /\ Len(p) >= 3 /\ width = 0
          /\ op' = "simplify_path: SIGFPE"
          /\ UNCHANGED ret
    /\ UNCHANGED <<buffers, start, goal, goals, allow_diagonal, heuristic_weight,
                   dmap, starts, max_cost, post_args, scratch>>

----------------------------------------------------------------------------
(* Path post-processing: path_to_vectors, cell indices to cell centres *)

\* x * cell_size + half_cell, in units of 1 / (2 * Unit)
CentreCoord(x, cs) == (2 * x + 1) * cs

path_to_vectors(p, w, cs) ==
    [i \in 1 .. Len(p) |-> <<CentreCoord(Rem(p[i], w), cs), CentreCoord(Quot(p[i], w), cs)>>]

\* the caller calls path_to_vectors(p, width, cs / Unit)
PathToVectorsCall(p, cs) ==
    /\ op = "none" /\ outer = "none"
    /\ ~ret["path_to_vectors"].done
    /\ path' = p /\ cell_size' = cs
    /\ \/ /\ ret' = [ret EXCEPT !["path_to_vectors"] = Returned(path_to_vectors(p, width, cs))]
          /\ UNCHANGED op
       \/ /\ Len(p) >= 1 /\ width = 0
          /\ op' = "path_to_vectors: SIGFPE"
          /\ UNCHANGED ret
    /\ UNCHANGED <<buffers, start, goal, goals, allow_diagonal, heuristic_weight,
                   dmap, starts, max_cost, blocking_value, scratch>>

----------------------------------------------------------------------------
(* Path post-processing: funnel_smooth, greedy line-of-sight shortcuts *)

\* the line-of-sight walk from (px, py) with error term err toward (x1, y1):
\* clear after the loop; grid_ptr is the caller's grid, w the width argument
RECURSIVE LineOfSight(_, _, _, _, _, _, _, _)
LineOfSight(grid_ptr, w, bv, px, py, err, x0y0, x1y1) ==
    LET x0 == x0y0[1]
        y0 == x0y0[2]
        x1 == x1y1[1]
        y1 == x1y1[2]
        dx == Abs(x1 - x0)
        dy == -Abs(y1 - y0)
        sx == IF x0 < x1 THEN 1 ELSE -1
        sy == IF y0 < y1 THEN 1 ELSE -1
        idx == py * w + px
        grid_size == Cardinality(DOMAIN grid_ptr)
        e2 == 2 * err
        err_x == IF e2 >= dy THEN err + dy ELSE err
        px_n  == IF e2 >= dy THEN px + sx ELSE px
        err_y == IF e2 <= dx THEN err_x + dx ELSE err_x
        py_n  == IF e2 <= dx THEN py + sy ELSE py
    IN  IF idx >= 0 /\ idx < grid_size /\ grid_ptr[idx] = bv THEN FALSE
        ELSE IF px = x1 /\ py = y1 THEN TRUE
        ELSE LineOfSight(grid_ptr, w, bv, px_n, py_n, err_y, x0y0, x1y1)

\* a plausible slip: the cells of the two end points are not tested
RECURSIVE LineOfSightBetween(_, _, _, _, _, _, _, _)
LineOfSightBetween(grid_ptr, w, bv, px, py, err, x0y0, x1y1) ==
    LET x0 == x0y0[1]
        y0 == x0y0[2]
        x1 == x1y1[1]
        y1 == x1y1[2]
        dx == Abs(x1 - x0)
        dy == -Abs(y1 - y0)
        sx == IF x0 < x1 THEN 1 ELSE -1
        sy == IF y0 < y1 THEN 1 ELSE -1
        idx == py * w + px
        grid_size == Cardinality(DOMAIN grid_ptr)
        e2 == 2 * err
        err_x == IF e2 >= dy THEN err + dy ELSE err
        px_n  == IF e2 >= dy THEN px + sx ELSE px
        err_y == IF e2 <= dx THEN err_x + dx ELSE err_x
        py_n  == IF e2 <= dx THEN py + sy ELSE py
    IN  IF px = x1 /\ py = y1 THEN TRUE
        ELSE IF (px # x0 \/ py # y0) /\ idx >= 0 /\ idx < grid_size /\ grid_ptr[idx] = bv
        THEN FALSE
        ELSE LineOfSightBetween(grid_ptr, w, bv, px_n, py_n, err_y, x0y0, x1y1)

\* a plausible slip: the end points are exempt from the blocking test
clear_exempt(src, grid_ptr, w, bv, current, i) ==
    LET x0y0 == <<ToInt(src[current][1]), ToInt(src[current][2])>>
        x1y1 == <<ToInt(src[i][1]), ToInt(src[i][2])>>
        err  == Abs(x1y1[1] - x0y0[1]) - Abs(x1y1[2] - x0y0[2])
    IN  LineOfSightBetween(grid_ptr, w, bv, x0y0[1], x0y0[2], err, x0y0, x1y1)

\* bool clear for the points current and i of src (1-based)
clear(src, grid_ptr, w, bv, current, i) ==
    LET x0y0 == <<ToInt(src[current][1]), ToInt(src[current][2])>>
        x1y1 == <<ToInt(src[i][1]), ToInt(src[i][2])>>
        err  == Abs(x1y1[1] - x0y0[1]) - Abs(x1y1[2] - x0y0[2])
    IN  LineOfSight(grid_ptr, w, bv, x0y0[1], x0y0[2], err, x0y0, x1y1)

\* the for-loop over i, i + 1, ..., n looking for the furthest visible point
RECURSIVE FurthestVisible(_, _, _, _, _, _, _)
FurthestVisible(src, grid_ptr, w, bv, current, i, furthest) ==
    IF i > Len(src) THEN furthest
    ELSE FurthestVisible(src, grid_ptr, w, bv, current, i + 1,
                         IF clear(src, grid_ptr, w, bv, current, i) THEN i ELSE furthest)

\* the while (current < n - 1) loop: the points appended to result
RECURSIVE FunnelLoop(_, _, _, _, _)
FunnelLoop(src, grid_ptr, w, bv, current) ==
    IF current >= Len(src) THEN <<>>
    ELSE LET furthest == FurthestVisible(src, grid_ptr, w, bv, current, current + 2,
                                         current + 1)
         IN  <<src[furthest]>> \o FunnelLoop(src, grid_ptr, w, bv, furthest)

funnel_smooth(p, grid_ptr, w, bv) ==
    IF Len(p) < 3 THEN p
    ELSE <<p[1]>> \o FunnelLoop(p, grid_ptr, w, bv, 1)

\* the caller calls funnel_smooth(p, walkable, width, bv)
FunnelCall(p, bv) ==
    /\ op = "none" /\ outer = "none"
    /\ ~ret["funnel_smooth"].done
    /\ path' = p /\ blocking_value' = bv
    /\ ret' = [ret EXCEPT !["funnel_smooth"] = Returned(funnel_smooth(p, walkable, width, bv))]
    /\ UNCHANGED <<buffers, start, goal, goals, allow_diagonal, heuristic_weight,
                   dmap, starts, max_cost, cell_size, op, scratch>>

----------------------------------------------------------------------------
(* Batch pathfinding: astar_batch runs astar_grid once per pair *)

\* a plausible slip: arrays of different sizes are rejected as a whole
count_rejecting == IF Len(starts) # Len(goals) THEN 0 ELSE Len(starts)
\* int count = std::min(starts.size(), goals.size())
count == Min(Len(starts), Len(goals))

\* Vector2i(static_cast<int>(v.x), static_cast<int>(v.y))
ToVector2i(v) == <<ToInt(v[1]), ToInt(v[2])>>

\* the caller calls astar_batch(costs, width, height, ss, gs, diag)
BatchCall(ss, gs, diag) ==
    /\ op = "none" /\ outer = "none"
    /\ ~ret["astar_batch"].done
    /\ starts' = ss /\ goals' = gs /\ allow_diagonal' = diag
    /\ outer' = "astar_batch"
    /\ result' = <<>>
    /\ UNCHANGED <<snapshot, walk, start, goal, heuristic_weight, dmap, path, max_cost,
                   post_args,
                   op, scratch, ret>>

\* a plausible slip: every start is paired with the first goal
BatchIter_firstgoal ==
    /\ outer = "astar_batch" /\ op = "none"
    /\ ~ret["astar_grid"].done
    /\ Len(result) < count
    /\ astar_grid_weighted("astar_grid", costs, ToVector2i(starts[Len(result) + 1]),
                           ToVector2i(goals[1]), allow_diagonal, 1)
    /\ UNCHANGED <<buffers, goals, other_args>>

\* the loop body for i = Len(result) (0-based): astar_grid is entered for
\* the pair (starts[i], goals[i])
BatchIter ==
    /\ outer = "astar_batch" /\ op = "none"
    /\ ~ret["astar_grid"].done
    /\ Len(result) < count
    /\ astar_grid_weighted("astar_grid", costs, ToVector2i(starts[Len(result) + 1]),
                           ToVector2i(goals[Len(result) + 1]), allow_diagonal, 1)
    /\ UNCHANGED <<buffers, goals, other_args>>

\* astar_grid has returned into the loop: result.append(...)
BatchAppend ==
    /\ outer = "astar_batch" /\ op = "none"
    /\ ret["astar_grid"].done
    /\ result' = Append(result, ret["astar_grid"].val)
    /\ ret' = [ret EXCEPT !["astar_grid"] = NoRet]
    /\ UNCHANGED <<snapshot, walk, outer, args, op, scratch>>

\* the loop is over: return result
BatchReturn ==
    /\ outer = "astar_batch" /\ op = "none"
    /\ ~ret["astar_grid"].done
    /\ Len(result) >= count
    /\ ret' = [ret EXCEPT !["astar_batch"] = Returned(result)]
    /\ outer' = "none"
    /\ result' = <<>>
    /\ UNCHANGED <<snapshot, walk, args, op, scratch>>

----------------------------------------------------------------------------
(* Reachability: reachable_cells, a cost-limited Dijkstra expansion *)

\* the float max_cost is max_cost / Unit
Budget(m) == Num(m, 0)

\* a plausible slip: a cell whose cost equals the budget is skipped too
RECURSIVE ReachRelax_strict(_, _, _)
ReachRelax_strict(d, cur, st) ==
    LET cx == cur % width
        cy == cur \div width
        nx == cx + dx4[d]
        ny == cy + dy4[d]
        ni == ny * width + nx
        cell_cost == cost_ptr[ni]
        new_g == Add(st.g[cur], Num(cell_cost, 0))
    IN  IF d > 4 THEN st
        ELSE IF ~InBounds(nx, ny) THEN ReachRelax_strict(d + 1, cur, st)
        ELSE IF Blocked(cell_cost) THEN ReachRelax_strict(d + 1, cur, st)
        ELSE IF ~Less(new_g, Budget(max_cost)) THEN ReachRelax_strict(d + 1, cur, st)
        ELSE IF Less(new_g, st.g[ni])
             THEN ReachRelax_strict(d + 1, cur,
                    [g |-> [st.g EXCEPT ![ni] = new_g],
                     q |-> push(st.q, PathNode(ni, new_g))])
             ELSE ReachRelax_strict(d + 1, cur, st)

\* the for-loop over the 4 directions of one expansion; st = [g, q] are
\* g_cost and open while the loop runs
RECURSIVE ReachRelax(_, _, _)
ReachRelax(d, cur, st) ==
    LET cx == cur % width
        cy == cur \div width
        nx == cx + dx4[d]
        ny == cy + dy4[d]
        ni == ny * width + nx
        cell_cost == cost_ptr[ni]
        new_g == Add(st.g[cur], Num(cell_cost, 0))
    IN  IF d > 4 THEN st
        ELSE IF ~InBounds(nx, ny) THEN ReachRelax(d + 1, cur, st)
        ELSE IF Blocked(cell_cost) THEN ReachRelax(d + 1, cur, st)
        ELSE IF Less(Budget(max_cost), new_g) THEN ReachRelax(d + 1, cur, st)
        ELSE IF Less(new_g, st.g[ni])
             THEN ReachRelax(d + 1, cur,
                    [g |-> [st.g EXCEPT ![ni] = new_g],
                     q |-> push(st.q, PathNode(ni, new_g))])
             ELSE ReachRelax(d + 1, cur, st)

\* a plausible slip: a non-positive budget returns the empty array at once
ReachCall_degenerate(s, m) ==
    LET start_idx == s[2] * width + s[1]
        size      == width * height
    IN  /\ op = "none" /\ outer = "none"
        /\ ~ret["reachable_cells"].done
        /\ start' = s /\ max_cost' = m
        /\ result' = <<>>
        /\ IF ~InBounds(s[1], s[2]) \/ m <= 0
           THEN /\ ret' = [ret EXCEPT !["reachable_cells"] = Returned(<<>>)]
                /\ UNCHANGED <<op, scratch>>
           ELSE IF Blocked(costs[start_idx])
           THEN /\ ret' = [ret EXCEPT !["reachable_cells"] = Returned(<<>>)]
                /\ UNCHANGED <<op, scratch>>
           ELSE /\ op' = "reachable_cells"
                /\ cost_ptr' = costs
                /\ g_cost' = [i \in 0 .. (size - 1) |-> IF i = start_idx THEN Zero ELSE INF]
                /\ open' = push(EmptyBag, PathNode(start_idx, Zero))
                /\ UNCHANGED <<came_from, closed, ret>>
        /\ UNCHANGED <<snapshot, walk, outer, goal, goals, allow_diagonal, heuristic_weight,
                       dmap, path, starts, post_args>>

\* the caller calls reachable_cells(costs, width, height, s, m / Unit)
ReachCall(s, m) ==
    LET start_idx == s[2] * width + s[1]
        size      == width * height
    IN  /\ op = "none" /\ outer = "none"
        /\ ~ret["reachable_cells"].done
        /\ start' = s /\ max_cost' = m
        /\ result' = <<>>
        /\ IF ~InBounds(s[1], s[2])
           THEN /\ ret' = [ret EXCEPT !["reachable_cells"] = Returned(<<>>)]
                /\ UNCHANGED <<op, scratch>>
           ELSE IF Blocked(costs[start_idx])
           THEN /\ ret' = [ret EXCEPT !["reachable_cells"] = Returned(<<>>)]
                /\ UNCHANGED <<op, scratch>>
           ELSE /\ op' = "reachable_cells"
                /\ cost_ptr' = costs
                /\ g_cost' = [i \in 0 .. (size - 1) |-> IF i = start_idx THEN Zero ELSE INF]
                /\ open' = push(EmptyBag, PathNode(start_idx, Zero))
                /\ UNCHANGED <<came_from, closed, ret>>
        /\ UNCHANGED <<snapshot, walk, outer, goal, goals, allow_diagonal, heuristic_weight,
                       dmap, path, starts, post_args>>

\* one iteration of while (!open.empty())
ReachStep ==
    /\ op = "reachable_cells"
    /\ ~empty(open)
    /\ \E current \in top(open) :
         LET popped == pop(open, current)
         IN  IF Less(g_cost[current.index], current.f_cost)
             THEN /\ open' = popped
                  /\ UNCHANGED <<g_cost, result>>
             ELSE LET st == ReachRelax(1, current.index, [g |-> g_cost, q |-> popped])
                  IN  /\ result' = Append(result, current.index)
                      /\ g_cost' = st.g
                      /\ open' = st.q
    /\ UNCHANGED <<snapshot, walk, outer, args, op, ret, cost_ptr, came_from, closed>>

\* the loop ends with the frontier exhausted: return result
ReachReturn ==
    /\ op = "reachable_cells"
    /\ empty(open)
    /\ ret' = [ret EXCEPT ![op] = Returned(result)]
    /\ op' = "none"
    /\ result' = <<>>
    /\ Discard
    /\ UNCHANGED <<snapshot, walk, outer, args>>

----------------------------------------------------------------------------
(* path_cost: its own copy of the A* loop, keeping g_cost and no came_from *)

\* a plausible slip: a diagonal step is charged like a straight one
RECURSIVE PathCostRelax_straight(_, _, _, _)
PathCostRelax_straight(d, cur, cl, st) ==
    LET dir_count == IF allow_diagonal THEN 8 ELSE 4
        cx == cur % width
        cy == cur \div width
        nx == cx + (IF allow_diagonal THEN dx8[d] ELSE dx4[d])
        ny == cy + (IF allow_diagonal THEN dy8[d] ELSE dy4[d])
        ni == ny * width + nx
        cell_cost == cost_ptr[ni]
        move_cost == Num(cell_cost, 0)
        new_g == Add(st.g[cur], move_cost)
        h == heuristic(nx, ny, goal[1], goal[2], allow_diagonal)
    IN  IF d > dir_count THEN st
        ELSE IF ~InBounds(nx, ny) THEN PathCostRelax_straight(d + 1, cur, cl, st)
        ELSE IF cl[ni] THEN PathCostRelax_straight(d + 1, cur, cl, st)
        ELSE IF Blocked(cell_cost) THEN PathCostRelax_straight(d + 1, cur, cl, st)
        ELSE IF Less(new_g, st.g[ni])
             THEN PathCostRelax_straight(d + 1, cur, cl,
                    [g |-> [st.g EXCEPT ![ni] = new_g],
                     q |-> push(st.q, PathNode(ni, Add(new_g, h)))])
             ELSE PathCostRelax_straight(d + 1, cur, cl, st)

\* the for-loop over directions d .. dir_count of one expansion;
\* st = [g, q] are g_cost and open while the loop runs
RECURSIVE PathCostRelax(_, _, _, _)
PathCostRelax(d, cur, cl, st) ==
    LET dir_count == IF allow_diagonal THEN 8 ELSE 4
        cx == cur % width
        cy == cur \div width
        nx == cx + (IF allow_diagonal THEN dx8[d] ELSE dx4[d])
        ny == cy + (IF allow_diagonal THEN dy8[d] ELSE dy4[d])
        ni == ny * width + nx
        cell_cost == cost_ptr[ni]
        move_cost == IF allow_diagonal THEN cost8(d, cell_cost) ELSE Num(cell_cost, 0)
        new_g == Add(st.g[cur], move_cost)
        h == heuristic(nx, ny, goal[1], goal[2], allow_diagonal)
    IN  IF d > dir_count THEN st
        ELSE IF ~InBounds(nx, ny) THEN PathCostRelax(d + 1, cur, cl, st)
        ELSE IF cl[ni] THEN PathCostRelax(d + 1, cur, cl, st)
        ELSE IF Blocked(cell_cost) THEN PathCostRelax(d + 1, cur, cl, st)
        ELSE IF Less(new_g, st.g[ni])
             THEN PathCostRelax(d + 1, cur, cl,
                    [g |-> [st.g EXCEPT ![ni] = new_g],
                     q |-> push(st.q, PathNode(ni, Add(new_g, h)))])
             ELSE PathCostRelax(d + 1, cur, cl, st)

\* the caller calls path_cost(costs, width, height, s, g, diag)
PathCostCall(s, g, diag) ==
    LET start_idx == s[2] * width + s[1]
        goal_idx  == g[2] * width + g[1]
        size      == width * height
    IN  /\ op = "none" /\ outer = "none"
        /\ ~ret["path_cost"].done
        /\ start' = s /\ goal' = g /\ allow_diagonal' = diag
        /\ IF ~InBounds(s[1], s[2]) \/ ~InBounds(g[1], g[2])
           THEN /\ ret' = [ret EXCEPT !["path_cost"] = Returned(INF)]
                /\ UNCHANGED <<op, scratch>>
           ELSE IF Blocked(costs[start_idx]) \/ Blocked(costs[goal_idx])
           THEN /\ ret' = [ret EXCEPT !["path_cost"] = Returned(INF)]
                /\ UNCHANGED <<op, scratch>>
           ELSE /\ op' = "path_cost"
                /\ cost_ptr' = costs
                /\ g_cost' = [i \in 0 .. (size - 1) |-> IF i = start_idx THEN Zero ELSE INF]
                /\ closed' = [i \in 0 .. (size - 1) |-> FALSE]
                /\ open' = push(EmptyBag,
                                PathNode(start_idx, heuristic(s[1], s[2], g[1], g[2], diag)))
                /\ UNCHANGED <<came_from, ret>>
        /\ UNCHANGED <<buffers, goals, heuristic_weight, other_args>>

\* one iteration of while (!open.empty())
PathCostStep ==
    /\ op = "path_cost"
    /\ ~empty(open)
    /\ \E current \in top(open) :
         LET goal_idx == goal[2] * width + goal[1]
             popped   == pop(open, current)
         IN  IF current.index = goal_idx
             THEN /\ ret' = [ret EXCEPT ![op] = Returned(g_cost[goal_idx])]
                  /\ op' = "none"
                  /\ Discard
             ELSE IF closed[current.index]
             THEN /\ open' = popped
                  /\ UNCHANGED <<op, ret, cost_ptr, g_cost, came_from, closed>>
             ELSE LET cl == [closed EXCEPT ![current.index] = TRUE]
                      st == PathCostRelax(1, current.index, cl, [g |-> g_cost, q |-> popped])
                  IN  /\ closed' = cl
                      /\ g_cost' = st.g
                      /\ open' = st.q
                      /\ UNCHANGED <<op, ret, cost_ptr, came_from>>
    /\ UNCHANGED <<buffers, args>>

\* the loop ends with the frontier exhausted: return INF
PathCostExhausted ==
    /\ op = "path_cost"
    /\ empty(open)
    /\ ret' = [ret EXCEPT ![op] = Returned(INF)]
    /\ op' = "none"
    /\ Discard
    /\ UNCHANGED <<buffers, args>>

----------------------------------------------------------------------------
(* is_reachable: astar_grid with allow_diagonal = true, reduced to a bool *)

\* a plausible slip: the search is run without diagonal moves
IsReachableCall_orthogonal(s, g) ==
    /\ op = "none" /\ outer = "none"
    /\ ~ret["is_reachable"].done /\ ~ret["astar_grid"].done
    /\ outer' = "is_reachable"
    /\ astar_grid_weighted("astar_grid", costs, s, g, FALSE, 1)
    /\ UNCHANGED <<snapshot, walk, result, goals, other_args>>

\* the caller calls is_reachable(costs, width, height, s, g):
\* path = astar_grid(costs, width, height, start, goal, true)
IsReachableCall(s, g) ==
    /\ op = "none" /\ outer = "none"
    /\ ~ret["is_reachable"].done /\ ~ret["astar_grid"].done
    /\ outer' = "is_reachable"
    /\ astar_grid_weighted("astar_grid", costs, s, g, TRUE, 1)
    /\ UNCHANGED <<snapshot, walk, result, goals, other_args>>

\* astar_grid has returned: return path.size() > 0
IsReachableReturn ==
    /\ outer = "is_reachable" /\ op = "none"
    /\ ret["astar_grid"].done
    /\ ret' = [ret EXCEPT !["is_reachable"] = Returned(Len(ret["astar_grid"].val) > 0),
                          !["astar_grid"] = NoRet]
    /\ outer' = "none"
    /\ UNCHANGED <<snapshot, walk, result, args, op, scratch>>

----------------------------------------------------------------------------
(* SpecPaths: one path query (A*, uniform A* or Dijkstra) on a weighted grid *)

Idle ==
    /\ op = "none"
    /\ start = <<0, 0>> /\ goal = <<0, 0>> /\ goals = <<>>
    /\ allow_diagonal = FALSE /\ heuristic_weight = 1
    /\ cost_ptr = NoScratch /\ g_cost = NoScratch /\ came_from = NoScratch
    /\ closed = NoScratch /\ open = EmptyBag
    /\ ret = [e \in EntryPoints |-> NoRet]
    /\ dmap = <<>>
    /\ path = <<>>
    /\ starts = <<>>
    /\ max_cost = 0
    /\ blocking_value = 0
    /\ cell_size = 0
    /\ outer = "none"
    /\ result = <<>>
    /\ walk = <<>>

\* no entry point has been called yet on this snapshot
Fresh == \A e \in EntryPoints : ~ret[e].done

\* goal arrays: one goal, given exactly or with a fractional part, optionally
\* followed by a second goal
GoalVectors(w, h) ==
    {Vector2(c[1], c[2]) : c \in Coords(w, h)} \cup {<<-1, 0>>, <<Unit * w - 1, 0>>}

InitPaths ==
    /\ width \in 1 .. MaxWidth
    /\ height \in 1 .. 2
    /\ costs \in WeightedGrids(width, height) \cup BlockedGrids(width, height, 2)
    /\ walkable = costs
    /\ Idle

PathsAstarCall ==
    /\ Fresh
    /\ \E s \in Coords(width, height), g \in Coords(width, height), diag \in BOOLEAN :
         AstarCall(s, g, diag)

PathsUniformCall ==
    /\ Fresh
    /\ \E s \in Coords(width, height), g \in Coords(width, height), diag \in BOOLEAN :
         UniformCall(s, g, diag)

PathsDijkstraCall ==
    /\ Fresh
    /\ \E s \in Coords(width, height), g1 \in GoalVectors(width, height) :
         \/ DijkstraCall(s, <<g1>>)
         \/ DijkstraCall(s, <<g1, Vector2(0, 0)>>)

NextPaths ==
    \/ PathsAstarCall \/ PathsUniformCall \/ PathsDijkstraCall
    \/ AstarStep \/ AstarExhausted \/ DijkstraStep \/ DijkstraExhausted

SpecPaths == InitPaths /\ [][NextPaths]_vars

----------------------------------------------------------------------------
(* Reference notions the properties are stated with *)

XOf(i) == i % width
YOf(i) == i \div width
CellsNow == 0 .. (width * height - 1)
Idx(c) == c[2] * width + c[1]

Adjacent4(a, b) == Abs(XOf(a) - XOf(b)) + Abs(YOf(a) - YOf(b)) = 1
Adjacent8(a, b) == a # b /\ Abs(XOf(a) - XOf(b)) <= 1 /\ Abs(YOf(a) - YOf(b)) <= 1
Adjacent(a, b, diag) == IF diag THEN Adjacent8(a, b) ELSE Adjacent4(a, b)

\* cost of stepping from a into the adjacent cell b: step_cost * cost of b
StepCost(cp, a, b) ==
    IF XOf(a) # XOf(b) /\ YOf(a) # YOf(b) THEN Num(0, cp[b]) ELSE Num(cp[b], 0)

RECURSIVE PathCost(_, _)
PathCost(cp, p) ==
    IF Len(p) < 2 THEN Zero
    ELSE Add(StepCost(cp, p[1], p[2]), PathCost(cp, Tail(p)))

MinOf(S) == CHOOSE x \in S : \A y \in S : ~Less(y, x)

\* one Bellman-Ford round over the cells c, c + 1, ...: the tuple of their new
\* distances (d is a tuple, the distance of cell i at d[i + 1])
RECURSIVE Round(_, _, _, _)
Round(cp, diag, d, c) ==
    IF c >= width * height THEN <<>>
    ELSE <<IF cp[c] <= 0 THEN d[c + 1]
           ELSE MinOf({d[c + 1]} \cup
                      {Add(d[n + 1], StepCost(cp, n, c)) :
                          n \in {m \in CellsNow : Adjacent(m, c, diag)}})>>
         \o Round(cp, diag, d, c + 1)

\* d after k rounds: the least cost of a route of at most k more steps
RECURSIVE Relaxed(_, _, _, _)
Relaxed(cp, diag, d, k) ==
    IF k = 0 THEN d ELSE Relaxed(cp, diag, Round(cp, diag, d, 0), k - 1)

RECURSIVE Seeded(_, _)
Seeded(srcs, c) ==
    IF c >= width * height THEN <<>>
    ELSE <<IF c \in srcs THEN Zero ELSE INF>> \o Seeded(srcs, c + 1)

\* least cost of a route from src to every cell (INF: none), a step costing
\* step_cost * cost of the cell entered; src must be passable
ShortestFrom(cp, src, diag) ==
    LET d == Relaxed(cp, diag, Seeded({src}, 0), width * height)
    IN  [c \in CellsNow |-> d[c + 1]]

ValidPath(p, cp, first, lasts, diag) ==
    /\ p[1] = first
    /\ p[Len(p)] \in lasts
    /\ \A i \in 1 .. Len(p) : p[i] \in CellsNow /\ cp[p[i]] > 0
    /\ \A i \in 1 .. (Len(p) - 1) : Adjacent(p[i], p[i + 1], diag)

PathOf(e) == ret[e].val
NonEmpty(e) == ret[e].done /\ PathOf(e) # <<>>

----------------------------------------------------------------------------
(* C1: a non-empty path returned by astar_grid, astar_uniform or           *)
(* dijkstra_grid starts at the start index, ends at the goal index (one of *)
(* the goals for dijkstra_grid), visits passable cells only and moves      *)
(* between grid-adjacent cells: 4-neighbours without allow_diagonal and    *)
(* for dijkstra_grid, 8-neighbours with allow_diagonal.                    *)
C1_PathValid ==
    /\ NonEmpty("astar_grid") =>
         ValidPath(PathOf("astar_grid"), costs, Idx(start), {Idx(goal)}, allow_diagonal)
    /\ NonEmpty("astar_uniform") =>
         ValidPath(PathOf("astar_uniform"), UniformCosts(walkable), Idx(start),
                   {Idx(goal)}, allow_diagonal)
    /\ NonEmpty("dijkstra_grid") =>
         ValidPath(PathOf("dijkstra_grid"), costs, Idx(start), GoalSet(goals), FALSE)

\* a diagonal A* query answered with a path of three cells or more
C1_Witness ==
    /\ NonEmpty("astar_grid") /\ allow_diagonal
    /\ Len(PathOf("astar_grid")) >= 3
    /\ \E i \in 1 .. (Len(PathOf("astar_grid")) - 1) :
         ~Adjacent4(PathOf("astar_grid")[i], PathOf("astar_grid")[i + 1])

----------------------------------------------------------------------------
(* C2 as stated: with heuristic_weight = 1, for every cost field with any  *)
(* positive passable costs, the path astar_grid returns has the minimum    *)
(* total cost among all start-to-goal paths.                               *)
C2_OptimalAnyCost ==
    NonEmpty("astar_grid") =>
        PathCost(costs, PathOf("astar_grid")) =
            ShortestFrom(costs, Idx(start), allow_diagonal)[Idx(goal)]

\* every passable cell costs at least 1
CostsAtLeastOne == \A c \in CellsNow : costs[c] <= 0 \/ costs[c] >= Unit

(* C2 amended: with heuristic_weight = 1 and every passable cell of cost   *)
(* at least 1, the path astar_grid returns has the minimum total cost      *)
(* among all start-to-goal paths, under either connectivity.               *)
C2_OptimalCostAtLeastOne ==
    (NonEmpty("astar_grid") /\ CostsAtLeastOne) =>
        PathCost(costs, PathOf("astar_grid")) =
            ShortestFrom(costs, Idx(start), allow_diagonal)[Idx(goal)]

\* an optimal path that avoids a costlier direct route, on a non-uniform grid
C2_Witness ==
    /\ NonEmpty("astar_grid") /\ CostsAtLeastOne
    /\ \E c \in CellsNow : costs[c] > Unit
    /\ Len(PathOf("astar_grid")) >= 4

----------------------------------------------------------------------------
(* C4: astar_grid returns the empty path exactly when start or goal is out *)
(* of bounds, start or goal is blocked, or no route of passable cells      *)
(* connects them under the requested connectivity; otherwise the path is   *)
(* non-empty ([start] when start = goal).                                  *)
Routable(cp, s, g, diag) ==
    /\ InBounds(s[1], s[2]) /\ InBounds(g[1], g[2])
    /\ cp[Idx(s)] > 0 /\ cp[Idx(g)] > 0
    /\ ~IsInf(ShortestFrom(cp, Idx(s), diag)[Idx(g)])

C4_EmptyIffNoRoute ==
    ret["astar_grid"].done =>
        /\ (PathOf("astar_grid") = <<>>) <=> ~Routable(costs, start, goal, allow_diagonal)
        /\ (InBounds(start[1], start[2]) /\ costs[Idx(start)] > 0 /\ start = goal)
              => PathOf("astar_grid") = <<Idx(start)>>

\* the frontier ran dry: both ends valid and passable, yet no route
C4_Witness ==
    /\ ret["astar_grid"].done /\ PathOf("astar_grid") = <<>>
    /\ InBounds(start[1], start[2]) /\ InBounds(goal[1], goal[2])
    /\ costs[Idx(start)] > 0 /\ costs[Idx(goal)] > 0

----------------------------------------------------------------------------
(* SpecCompare: on a grid of blocked and cost-1 cells the caller runs      *)
(* 4-connected astar_grid, then dijkstra_grid with the same start and the  *)
(* same single goal                                                        *)

InitCompare ==
    /\ width \in 1 .. MaxWidth
    /\ height \in 1 .. 2
    /\ costs \in Grids(width, height, Unit, {0, -1}, 2)
    /\ walkable = costs
    /\ Idle

CompareAstarCall ==
    /\ Fresh
    /\ \E s \in Coords(width, height), g \in Coords(width, height) :
         AstarCall(s, g, FALSE)

CompareDijkstraCall ==
    /\ ret["astar_grid"].done
    /\ DijkstraCall(start, <<Vector2(goal[1], goal[2])>>)

NextCompare ==
    \/ CompareAstarCall \/ AstarStep \/ AstarExhausted
    \/ CompareDijkstraCall \/ DijkstraStep \/ DijkstraExhausted

SpecCompare == InitCompare /\ [][NextCompare]_vars

UnitCosts == \A c \in CellsNow : costs[c] <= 0 \/ costs[c] = Unit

(* C3: with 4-connectivity, heuristic_weight = 1 and every cell blocked or *)
(* of cost 1, the path astar_grid returns and the path dijkstra_grid       *)
(* returns for the same start and single goal have the same total cost,    *)
(* and one is empty exactly when the other is.                             *)
C3_AstarEqualsDijkstra ==
    (/\ ret["astar_grid"].done /\ ret["dijkstra_grid"].done
     /\ UnitCosts /\ ~allow_diagonal /\ heuristic_weight = 1
     /\ goals = <<Vector2(goal[1], goal[2])>>) =>
        /\ (PathOf("astar_grid") = <<>>) <=> (PathOf("dijkstra_grid") = <<>>)
        /\ PathCost(costs, PathOf("astar_grid")) = PathCost(costs, PathOf("dijkstra_grid"))

\* both searches answered with a detour around a blocked cell
C3_Witness ==
    /\ NonEmpty("astar_grid") /\ NonEmpty("dijkstra_grid")
    /\ \E c \in CellsNow : costs[c] <= 0
    /\ Len(PathOf("astar_grid")) >= 4
    /\ Len(PathOf("astar_grid")) - 1 >
         Abs(start[1] - goal[1]) + Abs(start[2] - goal[2])

----------------------------------------------------------------------------
(* SpecJps: one jps_grid query on a walkable field                         *)

InitJps ==
    /\ width \in 1 .. MaxJpsWidth
    /\ height \in 1 .. 3
    /\ walkable \in Grids(width, height, 1, {0}, 2)
    /\ costs = <<>>
    /\ Idle

JpsFirstCall ==
    /\ Fresh
    /\ \E s \in InGrid(width, height), g \in InGrid(width, height) : JpsCall(s, g)

NextJps == JpsFirstCall \/ JpsStep \/ JpsExhausted

SpecJps == InitJps /\ [][NextJps]_vars

(* SpecJpsAstar: the caller runs jps_grid, then 8-connected astar_uniform  *)
(* with the same start and goal on the same walkable field                 *)

InitJpsAstar ==
    /\ width \in 1 .. MaxWidth
    /\ height \in 1 .. 3
    /\ walkable \in Grids(width, height, 1, {0}, 3)
    /\ costs = <<>>
    /\ Idle

JpsThenUniformCall ==
    /\ ret["jps_grid"].done
    /\ UniformCall(start, goal, TRUE)

NextJpsAstar ==
    \/ JpsFirstCall \/ JpsStep \/ JpsExhausted
    \/ JpsThenUniformCall \/ AstarStep \/ AstarExhausted

SpecJpsAstar == InitJpsAstar /\ [][NextJpsAstar]_vars

\* total length of a path of straight segments (orthogonal unit 1, diagonal
\* unit sqrt(2)); for a path of adjacent cells this is its cost on a uniform grid
RECURSIVE SegmentsLength(_)
SegmentsLength(p) ==
    IF Len(p) < 2 THEN Zero
    ELSE Add(SegmentLength(XOf(p[1]), YOf(p[1]), XOf(p[2]), YOf(p[2])),
             SegmentsLength(Tail(p)))

\* a and b lie on one row, column or diagonal
Aligned(a, b) ==
    \/ XOf(a) = XOf(b) \/ YOf(a) = YOf(b)
    \/ Abs(XOf(a) - XOf(b)) = Abs(YOf(a) - YOf(b))

(* C5: on a uniform-cost walkable grid, for every start and goal, jps_grid *)
(* and 8-connected astar_uniform return paths of equal total length (JPS   *)
(* segments measured along their straight line); in particular one is      *)
(* empty exactly when the other is.                                        *)
C5_JpsEqualsAstar ==
    (ret["jps_grid"].done /\ ret["astar_uniform"].done) =>
        /\ (PathOf("jps_grid") = <<>>) <=> (PathOf("astar_uniform") = <<>>)
        /\ SegmentsLength(PathOf("jps_grid")) = SegmentsLength(PathOf("astar_uniform"))

Run(a, b) ==
    LET k == Max(Abs(XOf(b) - XOf(a)), Abs(YOf(b) - YOf(a)))
    IN  {(YOf(a) + i * Sign(YOf(b) - YOf(a))) * width
            + (XOf(a) + i * Sign(XOf(b) - XOf(a))) : i \in 0 .. k}

----------------------------------------------------------------------------
Diagonals == {<<1, 1>>, <<1, -1>>, <<-1, 1>>, <<-1, -1>>}

\* the diagonal step from (x, y) by (dx, dy) passes between two blocked cells
CutsCorner(x, y, dx, dy) ==
    ~is_walkable(walkable, x + dx, y) /\ ~is_walkable(walkable, x, y + dy)

\* the unit steps <<cell, dx, dy>> made along the diagonal segments of a path
DiagonalSteps(p) ==
    UNION {LET sx == Sign(XOf(p[i + 1]) - XOf(p[i]))
               sy == Sign(YOf(p[i + 1]) - YOf(p[i]))
           IN  {<<c, sx, sy>> : c \in Run(p[i], p[i + 1]) \ {p[i + 1]}} :
           i \in {j \in 1 .. (Len(p) - 1) :
                    XOf(p[j]) # XOf(p[j + 1]) /\ YOf(p[j]) # YOf(p[j + 1])}}

(* C9 as stated: Jump Point Search never makes a diagonal move whose two   *)
(* flanking orthogonal cells are both blocked: the jump function does not  *)
(* step diagonally through such a corner (so it finds no jump point        *)
(* beyond it), and no path returned by jps_grid has a segment passing      *)
(* through such a corner.                                                  *)
C9_NoCornerCutting ==
    /\ op = "jps_grid" =>
         \A c \in CellsNow, d \in Diagonals :
            (walkable[c] # 0 /\ CutsCorner(XOf(c), YOf(c), d[1], d[2])) =>
                jump(walkable, XOf(c), YOf(c), d[1], d[2], goal[1], goal[2]) = -1
    /\ NonEmpty("jps_grid") =>
         \A st \in DiagonalSteps(PathOf("jps_grid")) :
            ~CutsCorner(XOf(st[1]), YOf(st[1]), st[2], st[3])

(* C9 amended: Jump Point Search makes a diagonal move from (x,y) to       *)
(* (x+dx,y+dy) only onto an in-bounds walkable cell, whatever the two      *)
(* flanking orthogonal cells are (a move between two blocked flanking      *)
(* cells is taken): every cell between a cell and the jump point the jump  *)
(* function returns for it is walkable, and every diagonal step of a path  *)
(* returned by jps_grid lands on a walkable cell.                          *)
C9_DiagonalOntoWalkable ==
    /\ op = "jps_grid" =>
         \A c \in CellsNow, d \in Diagonals :
            LET j == jump(walkable, XOf(c), YOf(c), d[1], d[2], goal[1], goal[2])
            IN  (walkable[c] # 0 /\ j # -1) =>
                    /\ Aligned(c, j)
                    /\ \A r \in Run(c, j) : walkable[r] # 0
    /\ NonEmpty("jps_grid") =>
         \A st \in DiagonalSteps(PathOf("jps_grid")) :
            LET x == XOf(st[1]) + st[2]
                y == YOf(st[1]) + st[3]
            IN  InBounds(x, y) /\ walkable[y * width + x] # 0

\* a returned path with a diagonal step between two blocked in-bounds cells
C9_Witness ==
    /\ NonEmpty("jps_grid")
    /\ \E st \in DiagonalSteps(PathOf("jps_grid")) :
         /\ InBounds(XOf(st[1]) + st[2], YOf(st[1]))
         /\ InBounds(XOf(st[1]), YOf(st[1]) + st[3])
         /\ CutsCorner(XOf(st[1]), YOf(st[1]), st[2], st[3])

----------------------------------------------------------------------------
(* SpecScenario: the 5x5 scenario.  Every cell costs 1 (is walkable), cell *)
(* (2,2) is either open or blocked; the caller runs 8-connected astar_grid *)
(* and then jps_grid from (0,0) to (4,4)                                   *)

InitScenario ==
    /\ width = 5
    /\ height = 5
    /\ \E centre \in {0, Unit} :
         costs = [c \in Cells(5, 5) |-> IF c = 2 * 5 + 2 THEN centre ELSE Unit]
    /\ walkable = [c \in Cells(5, 5) |-> IF costs[c] > 0 THEN 1 ELSE 0]
    /\ Idle

ScenarioAstarCall ==
    /\ Fresh
    /\ AstarCall(<<0, 0>>, <<4, 4>>, TRUE)

ScenarioJpsCall ==
    /\ ret["astar_grid"].done
    /\ JpsCall(<<0, 0>>, <<4, 4>>)

NextScenario == ScenarioAstarCall \/ AstarStep \/ ScenarioJpsCall \/ JpsStep

SpecScenario == InitScenario /\ [][NextScenario]_vars

ScenarioDone == ret["astar_grid"].done /\ ret["jps_grid"].done
CentreOpen == costs[2 * 5 + 2] > 0
\* 4 * sqrt(2)
PureDiagonal == Num(0, 4 * Unit)

----------------------------------------------------------------------------
(* SpecGuards: one astar_grid or jps_grid query with any start and goal,   *)
(* in or out of bounds, on a grid with blocked cells; the walkable field   *)
(* is the cost field's passability                                          *)

InitGuards ==
    /\ width \in 1 .. MaxWidth
    /\ height \in 1 .. 2
    /\ costs \in Grids(width, height, Unit, {0, -1}, 2)
    /\ walkable = [c \in Cells(width, height) |-> IF costs[c] > 0 THEN 1 ELSE 0]
    /\ Idle

GuardsAstarCall ==
    /\ Fresh
    /\ \E s \in Coords(width, height), g \in Coords(width, height), diag \in BOOLEAN :
         AstarCall(s, g, diag)

GuardsJpsCall ==
    /\ Fresh
    /\ \E s \in Coords(width, height), g \in Coords(width, height) :
         JpsCall(s, g)

NextGuards ==
    \/ GuardsAstarCall \/ GuardsJpsCall
    \/ AstarStep \/ AstarExhausted \/ JpsStep \/ JpsExhausted

SpecGuards == InitGuards /\ [][NextGuards]_vars

(* C8: when the start cell is blocked (cost <= 0 for A*, walkable 0 for    *)
(* JPS), astar_grid and jps_grid return the empty sequence whatever the    *)
(* goal is; jps_grid also returns empty when start or goal is out of       *)
(* bounds or the goal is blocked.                                          *)
C8_BlockedStartEmpty ==
    /\ (/\ ret["astar_grid"].done
        /\ InBounds(start[1], start[2])
        /\ costs[Idx(start)] <= 0)
       => PathOf("astar_grid") = <<>>
    /\ (/\ ret["jps_grid"].done
        /\ \/ ~InBounds(start[1], start[2])
           \/ ~InBounds(goal[1], goal[2])
           \/ walkable[Idx(start)] = 0
           \/ walkable[Idx(goal)] = 0)
       => PathOf("jps_grid") = <<>>

\* jps_grid has answered a query from a blocked start to a walkable goal
\* next to it
C8_Witness ==
    /\ ret["jps_grid"].done
    /\ InBounds(start[1], start[2]) /\ InBounds(goal[1], goal[2])
    /\ walkable[Idx(start)] = 0 /\ walkable[Idx(goal)] # 0
    /\ Adjacent8(Idx(start), Idx(goal))

----------------------------------------------------------------------------
(* SpecMap: dijkstra_map of a goal set on a weighted grid, then            *)
(* dijkstra_grid from some cell to the same goals                          *)

InitMap ==
    /\ width \in 1 .. MaxWidth
    /\ height \in 1 .. 2
    /\ costs \in WeightedGrids(width, height) \cup BlockedGrids(width, height, 2)
    /\ walkable = [c \in Cells(width, height) |-> IF costs[c] > 0 THEN 1 ELSE 0]
    /\ Idle

MapFirstCall ==
    /\ Fresh
    /\ \E g1 \in GoalVectors(width, height) :
         \/ MapCall(<<g1>>)
         \/ MapCall(<<g1, Vector2(0, 0)>>)

MapFirstSingleCall ==
    /\ Fresh
    /\ \E g \in Coords(width, height) : MapSingleCall(g)

MapThenDijkstraCall ==
    /\ ret["dijkstra_map"].done
    /\ \E s \in InGrid(width, height) : DijkstraCall(s, goals)

NextMap ==
    \/ MapFirstCall \/ MapFirstSingleCall \/ MapStep \/ MapReturn
    \/ MapThenDijkstraCall \/ DijkstraStep \/ DijkstraExhausted

SpecMap == InitMap /\ [][NextMap]_vars

(* C10: dijkstra_map returns at every cell c the minimum accumulated cost  *)
(* of travelling from c to the nearest goal over 4-connected passable      *)
(* routes, each step costing the cost of the cell entered, and INF exactly *)
(* when there is no route: the value at c equals the total cost of the     *)
(* path dijkstra_grid finds from start = c to the same goals.              *)
C10_MapEqualsDijkstraCost ==
    (ret["dijkstra_map"].done /\ ret["dijkstra_grid"].done) =>
        LET m == ret["dijkstra_map"].val[Idx(start)]
        IN  /\ IsInf(m) <=> PathOf("dijkstra_grid") = <<>>
            /\ PathOf("dijkstra_grid") # <<>> =>
                 m = PathCost(costs, PathOf("dijkstra_grid"))

\* the cells the goals array names: in bounds after the cast to int
GoalCells == GoalSet(goals)

(* C11 as stated: in the distance field returned by dijkstra_map /         *)
(* dijkstra_map_single every in-bounds cell listed in goals has distance   *)
(* exactly 0, and no other cell has distance 0.                            *)
C11_GoalsAtZero ==
    ret["dijkstra_map"].done =>
        \A c \in CellsNow : (ret["dijkstra_map"].val[c] = Zero) <=> (c \in GoalCells)

(* C11 amended: in the distance field returned by dijkstra_map /           *)
(* dijkstra_map_single every in-bounds goal cell of cost > 0 has distance  *)
(* exactly 0, an in-bounds goal cell of cost <= 0 has distance INF, and no *)
(* non-goal cell has distance 0.                                           *)
C11_PassableGoalsAtZero ==
    ret["dijkstra_map"].done =>
        \A c \in CellsNow :
            /\ (ret["dijkstra_map"].val[c] = Zero) <=> (c \in GoalCells /\ costs[c] > 0)
            /\ (c \in GoalCells /\ costs[c] <= 0) => ret["dijkstra_map"].val[c] = INF

\* a field returned for two goals, one blocked and one passable, with a
\* cell at finite non-zero distance
C11_Witness ==
    /\ ret["dijkstra_map"].done
    /\ \E b \in GoalCells, g \in GoalCells : costs[b] <= 0 /\ costs[g] > 0
    /\ \E c \in CellsNow : ~IsInf(ret["dijkstra_map"].val[c]) /\ ret["dijkstra_map"].val[c] # Zero

----------------------------------------------------------------------------
(* SpecField: flow_field_from_dijkstra on any distance field whose values  *)
(* are 0, 1/Unit, 1 or INF                                                 *)

FieldValues == {Zero, Num(1, 0), Num(Unit, 0), INF}

InitField ==
    /\ width \in 1 .. MaxWidth
    /\ height \in 1 .. 2
    /\ costs = [c \in Cells(width, height) |-> Unit]
    /\ walkable = [c \in Cells(width, height) |-> 1]
    /\ Idle

FieldCall ==
    /\ Fresh
    /\ \E d \in [Cells(width, height) -> FieldValues] : FromDijkstraCall(d)

NextField == FieldCall

SpecField == InitField /\ [][NextField]_vars

\* the in-bounds 8-neighbours of cell i
Neighbours8(i) == {n \in CellsNow : Adjacent8(i, n)}
\* the unit vector from cell i toward its neighbour n
UnitToward(i, n) ==
    <<XOf(n) - XOf(i), YOf(n) - YOf(i),
      (XOf(n) - XOf(i)) * (XOf(n) - XOf(i)) + (YOf(n) - YOf(i)) * (YOf(n) - YOf(i))>>
\* v is the unit direction from cell i to a neighbour of least distance in d
PointsAtLeast(i, d, v) ==
    \E n \in Neighbours8(i) :
        /\ \A m \in Neighbours8(i) : ~Less(d[m], d[n])
        /\ Less(d[n], d[i])
        /\ v = UnitToward(i, n)
        /\ v[1] * v[1] + v[2] * v[2] = v[3]

(* C13: flow_field_from_dijkstra outputs, for every cell of finite         *)
(* distance, the unit direction to an in-bounds 8-neighbour of smallest    *)
(* distance among its in-bounds 8-neighbours when that distance is         *)
(* strictly smaller than the cell's own, and the zero vector when no       *)
(* neighbour improves; every cell of distance INF gets the zero vector.    *)
C13_FlowPointsAtLeastNeighbour ==
    ret["flow_field_from_dijkstra"].done =>
        \A i \in CellsNow :
            LET v == ret["flow_field_from_dijkstra"].val[i]
            IN  IF IsInf(dmap[i]) THEN v = ZeroVector
                ELSE IF \E n \in Neighbours8(i) : Less(dmap[n], dmap[i])
                     THEN PointsAtLeast(i, dmap, v)
                     ELSE v = ZeroVector

\* a field in which a cell has two improving neighbours of different
\* distances, the first one scanned not being the least, and the flow of
\* that cell is diagonal
C13_Witness ==
    /\ ret["flow_field_from_dijkstra"].done
    /\ \E i \in CellsNow :
          /\ ret["flow_field_from_dijkstra"].val[i][3] = 2
          /\ \E n \in Neighbours8(i), m \in Neighbours8(i) :
                Less(dmap[n], dmap[m]) /\ Less(dmap[m], dmap[i])
    /\ \E j \in CellsNow : IsInf(dmap[j])

----------------------------------------------------------------------------
(* SpecFlow: flow_field or flow_field_multi on a weighted grid, then the   *)
(* caller puts a walker on some cell and keeps moving it to the neighbour  *)
(* the flow vector of its cell points at                                   *)

InitFlow ==
    /\ width \in 1 .. MaxWidth
    /\ height \in 1 .. 2
    /\ costs \in WeightedGrids(width, height) \cup BlockedGrids(width, height, 2)
    /\ walkable = [c \in Cells(width, height) |-> IF costs[c] > 0 THEN 1 ELSE 0]
    /\ Idle

FlowFirstCall ==
    /\ Fresh
    /\ \E g \in Coords(width, height) : FlowCall(g)

FlowFirstMultiCall ==
    /\ Fresh
    /\ \E g1 \in GoalVectors(width, height) :
         \/ FlowMultiCall(<<g1>>)
         \/ FlowMultiCall(<<g1, Vector2(0, 0)>>)

FlowDone == ret["flow_field"].done \/ ret["flow_field_multi"].done
\* the flow field the caller holds
FlowNow == IF ret["flow_field"].done THEN ret["flow_field"].val
           ELSE ret["flow_field_multi"].val

\* the caller puts the walker on a cell
WalkStart ==
    /\ FlowDone
    /\ walk = <<>>
    /\ \E c \in 0 .. (width * height - 1) : walk' = <<c>>
    /\ UNCHANGED <<snapshot, frame, args, op, scratch, ret>>

\* the walker moves one cell along the flow vector of its cell; a walker on
\* a zero vector stays, and a walk longer than the grid has cells is cut
WalkStep ==
    /\ FlowDone
    /\ walk # <<>>
    /\ Len(walk) <= width * height
    /\ LET pos == walk[Len(walk)]
           v   == FlowNow[pos]
       IN  /\ v # ZeroVector
           /\ walk' = Append(walk, ((pos \div width) + v[2]) * width + (pos % width) + v[1])
    /\ UNCHANGED <<snapshot, frame, args, op, scratch, ret>>

NextFlow ==
    \/ FlowFirstCall \/ FlowFirstMultiCall \/ MapStep \/ MapReturn
    \/ WalkStart \/ WalkStep

\* the walker keeps moving while it can
SpecFlow == InitFlow /\ [][NextFlow]_vars /\ WF_vars(WalkStep)

\* the walker has been put on a cell of finite distance
WalkStarted == walk # <<>> /\ ~IsInf(dmap[walk[1]])
\* the walker stands on a seeded goal cell
WalkArrived ==
    /\ walk # <<>>
    /\ walk[Len(walk)] \in GoalCells
    /\ costs[walk[Len(walk)]] > 0
WalkSound ==
    WalkStarted =>
        /\ \A i \in 1 .. Len(walk), j \in 1 .. Len(walk) : walk[i] = walk[j] => i = j
        /\ \A i \in 1 .. Len(walk) : walk[i] \in CellsNow /\ ~IsInf(dmap[walk[i]])

----------------------------------------------------------------------------
(* SpecNearest: one dijkstra_grid query, from any start, to one goal given *)
(* in or out of bounds or to a pair of in-bounds goals                     *)

InitNearest ==
    /\ width \in 1 .. MaxWidth
    /\ height \in 1 .. 2
    /\ costs \in WeightedGrids(width, height) \cup BlockedGrids(width, height, 2)
    /\ walkable = [c \in Cells(width, height) |-> IF costs[c] > 0 THEN 1 ELSE 0]
    /\ Idle

NearestCall ==
    /\ Fresh
    /\ \E s \in Coords(width, height) :
         \/ \E g1 \in GoalVectors(width, height) : DijkstraCall(s, <<g1>>)
         \/ \E c \in InGrid(width, height) :
               DijkstraCall(s, <<Vector2(width - 1, height - 1), Vector2(c[1], c[2])>>)

NextNearest == NearestCall \/ DijkstraStep \/ DijkstraExhausted

SpecNearest == InitNearest /\ [][NextNearest]_vars

\* the start is in bounds and passable and some goal can be reached from it
SomeGoalReachable ==
    /\ InBounds(start[1], start[2])
    /\ costs[Idx(start)] > 0
    /\ \E g \in GoalCells : ~IsInf(ShortestFrom(costs, Idx(start), FALSE)[g])

(* C14: dijkstra_grid returns a path from start to the nearest goal: its   *)
(* last cell is a goal whose 4-connected cost from start (sum of the costs *)
(* of the cells entered) is minimal over all goals and the path's cost is  *)
(* that minimum; it returns empty exactly when start is out of bounds or   *)
(* blocked, no goal is in bounds, or no goal is reachable.                 *)
C14_PathToNearestGoal ==
    ret["dijkstra_grid"].done =>
        IF SomeGoalReachable
        THEN LET p  == PathOf("dijkstra_grid")
                 sf == ShortestFrom(costs, Idx(start), FALSE)
             IN  /\ p # <<>>
                 /\ p[1] = Idx(start)
                 /\ p[Len(p)] \in GoalCells
                 /\ \A g \in GoalCells : ~Less(sf[g], sf[p[Len(p)]])
                 /\ PathCost(costs, p) = sf[p[Len(p)]]
        ELSE PathOf("dijkstra_grid") = <<>>

\* two reachable goals at different costs from the start, the cheaper one
\* more steps away than the other
C14_Witness ==
    /\ NonEmpty("dijkstra_grid")
    /\ SomeGoalReachable
    /\ \E g \in GoalCells, f \in GoalCells :
          /\ Less(ShortestFrom(costs, Idx(start), FALSE)[g],
                  ShortestFrom(costs, Idx(start), FALSE)[f])
          /\ ~IsInf(ShortestFrom(costs, Idx(start), FALSE)[f])
          /\ Abs(XOf(g) - start[1]) + Abs(YOf(g) - start[2])
               > Abs(XOf(f) - start[1]) + Abs(YOf(f) - start[2])

----------------------------------------------------------------------------
(* SpecSimplify: simplify_path, for any width, on any sequence of at most  *)
(* MaxLen indices below 2 * MaxWidth (simplify_path takes no height), then *)
(* again on its own result                                                 *)

UpTo(n, S) == UNION {[1 .. k -> S] : k \in 0 .. n}

InitSimplify ==
    /\ width \in 1 .. MaxWidth
    /\ height = 2
    /\ costs = [c \in Cells(width, height) |-> Unit]
    /\ walkable = [c \in Cells(width, height) |-> 1]
    /\ Idle

SimplifyFirstCall ==
    /\ Fresh
    /\ \E p \in UpTo(MaxLen, Cells(MaxWidth, 2)) : SimplifyCall(p)

SimplifyAgainCall ==
    /\ ret["simplify_path"].done
    /\ SimplifyCall(ret["simplify_path"].val)

NextSimplify == SimplifyFirstCall \/ SimplifyAgainCall

SpecSimplify == InitSimplify /\ [][NextSimplify]_vars

(* C15: simplify_path is idempotent: whenever it is called on a result it  *)
(* returned, for the same width, it returns that argument unchanged.       *)
C15_SimplifyIdempotent ==
    [][(ret["simplify_path"].done /\ path' = ret["simplify_path"].val)
          => ret'["simplify_path"].val = path']_vars

----------------------------------------------------------------------------
(* Reference: every path a standalone astar_grid(cp, width, height, s, g,  *)
(* diag) can return, over all the orders in which entries of equal         *)
(* priority may leave the frontier                                         *)

\* the neighbours of cur in scan order d, d + 1, ...; st = [g, cf, q]
RECURSIVE RefRelax(_, _, _, _, _, _, _)
RefRelax(cp, gl, diag, d, cur, cl, st) ==
    LET nx == XOf(cur) + (IF diag THEN dx8[d] ELSE dx4[d])
        ny == YOf(cur) + (IF diag THEN dy8[d] ELSE dy4[d])
        ni == ny * width + nx
        new_g == Add(st.g[cur], IF diag THEN cost8(d, cp[ni]) ELSE Num(cp[ni], 0))
    IN  IF d > (IF diag THEN 8 ELSE 4) THEN st
        ELSE IF ~InBounds(nx, ny) \/ cl[ni] \/ cp[ni] <= 0 \/ ~Less(new_g, st.g[ni])
             THEN RefRelax(cp, gl, diag, d + 1, cur, cl, st)
        ELSE RefRelax(cp, gl, diag, d + 1, cur, cl,
                [g  |-> [st.g EXCEPT ![ni] = new_g],
                 cf |-> [st.cf EXCEPT ![ni] = cur],
                 q  |-> push(st.q, PathNode(ni,
                          Add(new_g, heuristic(nx, ny, gl[1], gl[2], diag))))])

\* the results of the search continued from closed set cl and st = [g, cf, q]
RECURSIVE RefRuns(_, _, _, _, _, _)
RefRuns(cp, s, gl, diag, cl, st) ==
    IF empty(st.q) THEN {<<>>}
    ELSE UNION {
           IF cur.index = Idx(gl) THEN {reconstruct_path(st.cf, Idx(s), Idx(gl))}
           ELSE IF cl[cur.index]
                THEN RefRuns(cp, s, gl, diag, cl, [st EXCEPT !.q = pop(st.q, cur)])
           ELSE RefRuns(cp, s, gl, diag, [cl EXCEPT ![cur.index] = TRUE],
                        RefRelax(cp, gl, diag, 1, cur.index,
                                 [cl EXCEPT ![cur.index] = TRUE],
                                 [st EXCEPT !.q = pop(st.q, cur)]))
           : cur \in top(st.q)}

AstarResults(cp, s, gl, diag) ==
    IF ~InBounds(s[1], s[2]) \/ ~InBounds(gl[1], gl[2]) THEN {<<>>}
    ELSE IF cp[Idx(s)] <= 0 \/ cp[Idx(gl)] <= 0 THEN {<<>>}
    ELSE RefRuns(cp, s, gl, diag, [i \in CellsNow |-> FALSE],
                 [g  |-> [i \in CellsNow |-> IF i = Idx(s) THEN Zero ELSE INF],
                  cf |-> [i \in CellsNow |-> -1],
                  q  |-> SetToBag({PathNode(Idx(s), heuristic(s[1], s[2], gl[1], gl[2], diag))})])

----------------------------------------------------------------------------
(* SpecBatch: astar_batch on arrays of up to 2 starts and 2 goals, either  *)
(* on a fresh snapshot or after a dijkstra_grid query                      *)

\* the corner (0, 0) given with a fractional part, the opposite corner, and
\* a vector out of bounds
BatchVectors(w, h) == {<<1, 1>>, Vector2(w - 1, h - 1), <<-Unit, 0>>}

InitBatch ==
    /\ width \in 1 .. MaxWidth
    /\ height \in 1 .. 2
    /\ costs \in Grids(width, height, Unit, {0, 1}, 1)
    /\ walkable = [c \in Cells(width, height) |-> IF costs[c] > 0 THEN 1 ELSE 0]
    /\ Idle

\* the caller's earlier query, made before the batch is called
BatchPriorCall ==
    /\ Fresh /\ outer = "none"
    /\ DijkstraCall(<<0, 0>>, <<Vector2(width - 1, height - 1)>>)

BatchFirstCall ==
    /\ \A e \in EntryPoints \ {"dijkstra_grid"} : ~ret[e].done
    /\ \E ss \in UpTo(2, BatchVectors(width, height)),
          gs \in UpTo(2, BatchVectors(width, height)),
          diag \in BOOLEAN :
         BatchCall(ss, gs, diag)

NextBatch ==
    \/ BatchPriorCall \/ DijkstraStep \/ DijkstraExhausted
    \/ BatchFirstCall \/ BatchIter \/ AstarStep \/ AstarExhausted
    \/ BatchAppend \/ BatchReturn

SpecBatch == InitBatch /\ [][NextBatch]_vars

BatchDone == ret["astar_batch"].done
BatchResult == ret["astar_batch"].val
\* entry i of the result is a path astar_grid can return for pair i
PairAnswered(i) ==
    BatchResult[i] \in
        AstarResults(costs, ToVector2i(starts[i]), ToVector2i(goals[i]), allow_diagonal)

(* C16 as stated: astar_batch called with starts and goals arrays of       *)
(* different lengths returns an empty result, computing no path.           *)
C16_MismatchReturnsEmpty ==
    (BatchDone /\ Len(starts) # Len(goals)) => BatchResult = <<>>

(* C16 amended: astar_batch called with starts and goals arrays of         *)
(* different lengths pairs them up to the shorter length: the result has   *)
(* min(|starts|, |goals|) entries, entry i being the astar_grid path for   *)
(* (starts[i], goals[i]); the surplus entries of the longer array are      *)
(* ignored.                                                                *)
C16_MismatchTruncates ==
    (BatchDone /\ Len(starts) # Len(goals)) =>
        /\ Len(BatchResult) = Min(Len(starts), Len(goals))
        /\ \A i \in 1 .. Len(BatchResult) : PairAnswered(i)

\* a batch of 1 start and 2 goals answered with one non-empty path
C16_Witness ==
    /\ BatchDone
    /\ Len(starts) = 1 /\ Len(goals) = 2
    /\ Len(BatchResult) = 1 /\ BatchResult[1] # <<>>

(* C17: for starts and goals of equal length, entry i of astar_batch's     *)
(* result is what a standalone astar_grid call returns for (starts[i],     *)
(* goals[i]) on the same grid, whatever the other pairs, their order and   *)
(* the calls that ran before; the result has one entry per pair in input   *)
(* order and no step of the call changes the cost grid.                    *)
C17_PairsIndependent ==
    /\ [](( BatchDone /\ Len(starts) = Len(goals)) =>
            /\ Len(BatchResult) = Len(starts)
            /\ \A i \in 1 .. Len(BatchResult) : PairAnswered(i))
    /\ [][costs' = costs /\ width' = width /\ height' = height]_vars

\* a batch of two pairs answered after an earlier dijkstra_grid query, the
\* first pair with a path and the second with none
C17_Witness ==
    /\ BatchDone /\ ret["dijkstra_grid"].done
    /\ Len(starts) = 2 /\ Len(goals) = 2
    /\ Len(BatchResult) = 2
    /\ BatchResult[1] # <<>> /\ BatchResult[2] = <<>>

----------------------------------------------------------------------------
(* SpecReach: one reachable_cells query on a weighted grid, over budgets   *)
(* below, at and between the costs of the cells                            *)

\* budgets max_cost / Unit: negative, zero, below, at and above the cost of
\* one step on the base grid, and the cost of two and of three steps
Budgets == {-Unit, 0, 1, Unit, Unit + 1, 2 * Unit, 3 * Unit}

InitReach ==
    /\ width \in 1 .. MaxWidth
    /\ height \in 1 .. 2
    /\ costs \in WeightedGrids(width, height) \cup BlockedGrids(width, height, 2)
    /\ walkable = costs
    /\ Idle

ReachFirstCall ==
    /\ Fresh
    /\ \E s \in Coords(width, height), m \in Budgets : ReachCall(s, m)

NextReach == ReachFirstCall \/ ReachStep \/ ReachReturn

SpecReach == InitReach /\ [][NextReach]_vars

ReachDone == ret["reachable_cells"].done
Reached == ret["reachable_cells"].val
StartUsable == InBounds(start[1], start[2]) /\ costs[Idx(start)] > 0
\* least 4-connected cost from start to every cell
ReachDist == ShortestFrom(costs, Idx(start), FALSE)
\* the cells whose least cost d is <= max_cost
WithinBudget(d) == {c \in CellsNow : ~Less(Budget(max_cost), d[c])}
Ordered(r, d) == \A i \in 1 .. (Len(r) - 1) : ~Less(d[r[i + 1]], d[r[i]])
NoRepeat(r) == \A i \in 1 .. Len(r) : \A j \in 1 .. Len(r) : r[i] = r[j] => i = j
SetOf(r) == {r[i] : i \in 1 .. Len(r)}

----------------------------------------------------------------------------
(* SpecCost: one path_cost query on a weighted grid or a grid with blocked *)
(* cells                                                                   *)

InitCost ==
    /\ width \in 1 .. MaxWidth
    /\ height \in 1 .. 2
    /\ costs \in WeightedGrids(width, height) \cup BlockedGrids(width, height, 2)
    /\ walkable = costs
    /\ Idle

CostFirstCall ==
    /\ Fresh
    /\ \E s \in Coords(width, height), g \in Coords(width, height), diag \in BOOLEAN :
         PathCostCall(s, g, diag)

NextCost == CostFirstCall \/ PathCostStep \/ PathCostExhausted

SpecCost == InitCost /\ [][NextCost]_vars

CostDone == ret["path_cost"].done
CostValue == ret["path_cost"].val
\* what path_cost may report for a path p of astar_grid: INF for the empty
\* path, the total cost of p otherwise
CostOf(p) == IF p = <<>> THEN INF ELSE PathCost(costs, p)

(* C20: for every grid, start, goal and allow_diagonal, path_cost returns  *)
(* INF exactly when astar_grid returns the empty path for the same         *)
(* arguments, and otherwise the total cost (sum of step_cost x cost of the *)
(* cell entered) of a path astar_grid returns; path_cost(start = goal) is  *)
(* 0 for a passable cell.                                                  *)
C20_CostAgreesWithAstar ==
    CostDone =>
        LET paths == AstarResults(costs, start, goal, allow_diagonal)
        IN  /\ CostValue \in {CostOf(p) : p \in paths}
            /\ IsInf(CostValue) <=> (<<>> \in paths)
            /\ (start = goal /\ InBounds(start[1], start[2]) /\ costs[Idx(start)] > 0)
                   => CostValue = Zero

\* a diagonal query answered with a finite cost that has a sqrt(2) part and
\* a straight part
C20_Witness ==
    /\ CostDone /\ allow_diagonal
    /\ ~IsInf(CostValue)
    /\ CostValue[2] > 0 /\ CostValue[3] > 0

----------------------------------------------------------------------------
(* SpecIsReachable: one is_reachable query on a grid with up to 3 blocked  *)
(* cells                                                                   *)

InitIsReachable ==
    /\ width \in 1 .. MaxWidth
    /\ height \in 1 .. 2
    /\ costs \in Grids(width, height, Unit, {-1, 0}, 3)
    /\ walkable = costs
    /\ Idle

IsReachableFirstCall ==
    /\ Fresh
    /\ \E s \in Coords(width, height), g \in Coords(width, height) : IsReachableCall(s, g)

NextIsReachable == IsReachableFirstCall \/ AstarStep \/ AstarExhausted \/ IsReachableReturn

SpecIsReachable == InitIsReachable /\ [][NextIsReachable]_vars

\* a route of passable cells from start to goal under 8-connected movement
RouteExists8 ==
    /\ InBounds(start[1], start[2]) /\ InBounds(goal[1], goal[2])
    /\ costs[Idx(start)] > 0 /\ costs[Idx(goal)] > 0
    /\ ~IsInf(ShortestFrom(costs, Idx(start), TRUE)[Idx(goal)])

(* C21: is_reachable(costs, start, goal) returns true exactly when a route *)
(* of passable cells from start to goal exists under 8-connected movement  *)
(* (diagonal steps allowed, also between two blocked orthogonal cells),    *)
(* i.e. exactly when astar_grid with allow_diagonal = true returns a       *)
(* non-empty path; it is false for an out-of-bounds or blocked start or    *)
(* goal.                                                                   *)
C21_ReachableIffRoute ==
    ret["is_reachable"].done =>
        /\ ret["is_reachable"].val = RouteExists8
        /\ ret["is_reachable"].val =
             (<<>> \notin AstarResults(costs, start, goal, TRUE))

\* a query answered true whose start and goal are joined only by a diagonal
\* step between two blocked orthogonal cells
C21_Witness ==
    /\ ret["is_reachable"].done /\ ret["is_reachable"].val
    /\ start # goal
    /\ IsInf(ShortestFrom(costs, Idx(start), FALSE)[Idx(goal)])

----------------------------------------------------------------------------
(* SpecFunnel: funnel_smooth on paths of up to 4 cell centres over a grid  *)
(* with up to 2 blocking cells                                             *)

\* the centre of cell c, as path_to_vectors gives it for cell_size 1
Centre(c) == <<c[1] * Unit + 1, c[2] * Unit + 1>>

InitFunnel ==
    /\ width \in 1 .. MaxWidth
    /\ height \in 1 .. 2
    /\ costs = [c \in Cells(width, height) |-> Unit]
    /\ walkable \in Grids(width, height, 1, {0}, 2)
    /\ Idle

FunnelFirstCall ==
    /\ Fresh
    /\ \E p \in UpTo(4, {Centre(c) : c \in InGrid(width, height)}), bv \in {0, 1} :
         FunnelCall(p, bv)

NextFunnel == FunnelFirstCall

SpecFunnel == InitFunnel /\ [][NextFunnel]_vars

FunnelDone == ret["funnel_smooth"].done
Smoothed == ret["funnel_smooth"].val
CellOfPoint(k) == <<ToInt(path[k][1]), ToInt(path[k][2])>>

\* the cells of the grid-walked line from cell a to cell b, both included
RECURSIVE LineCells(_, _, _, _)
LineCells(c, err, a, b) ==
    LET dx == Abs(b[1] - a[1])
        dy == -Abs(b[2] - a[2])
        nx == IF 2 * err >= dy THEN c[1] + (IF a[1] < b[1] THEN 1 ELSE -1) ELSE c[1]
        ny == IF 2 * err <= dx THEN c[2] + (IF a[2] < b[2] THEN 1 ELSE -1) ELSE c[2]
        ne == err + (IF 2 * err >= dy THEN dy ELSE 0) + (IF 2 * err <= dx THEN dx ELSE 0)
    IN  IF c = b THEN <<c>> ELSE <<c>> \o LineCells(<<nx, ny>>, ne, a, b)

Line(a, b) == LineCells(a, Abs(b[1] - a[1]) - Abs(b[2] - a[2]), a, b)

\* c is a cell of the grid array holding the blocking value
Blocking(c) ==
    /\ c[2] * width + c[1] \in DOMAIN walkable
    /\ walkable[c[2] * width + c[1]] = blocking_value

\* point i is visible from point k: no blocking cell on the line, its two
\* end cells left out when exempt
Visible(k, i, exempt) ==
    LET l == Line(CellOfPoint(k), CellOfPoint(i))
    IN  \A j \in (IF exempt THEN 2 .. (Len(l) - 1) ELSE 1 .. Len(l)) : ~Blocking(l[j])

SetMax(S) == CHOOSE x \in S : \A y \in S : y <= x

\* the points appended after anchor k: the furthest visible later point, the
\* next point when none is visible, and so on from there
RECURSIVE Greedy(_, _)
Greedy(k, exempt) ==
    IF k >= Len(path) THEN <<>>
    ELSE LET nxt == SetMax({k + 1} \cup
                           {i \in (k + 2) .. Len(path) : Visible(k, i, exempt)})
         IN  <<path[nxt]>> \o Greedy(nxt, exempt)

GreedyPath(exempt) ==
    IF Len(path) < 3 THEN path ELSE <<path[1]>> \o Greedy(1, exempt)

\* r is p with some points left out
RECURSIVE IsSubsequence(_, _)
IsSubsequence(r, p) ==
    IF r = <<>> THEN TRUE
    ELSE IF p = <<>> THEN FALSE
    ELSE IF r[1] = p[1] THEN IsSubsequence(Tail(r), Tail(p))
    ELSE IsSubsequence(r, Tail(p))

KeepsEnds ==
    /\ IsSubsequence(Smoothed, path)
    /\ path # <<>> => (Smoothed[1] = path[1] /\ Smoothed[Len(Smoothed)] = path[Len(path)])

(* C23 as stated: funnel_smooth, from each anchor point, appends the       *)
(* furthest later path point whose grid-walked straight line from the      *)
(* anchor has no blocking cell strictly between the two points, the end    *)
(* point cells being exempt from the blocking test (the next point when    *)
(* none is visible); the output is a subsequence of the input that starts  *)
(* with the first and ends with the last input point.                      *)
C23_FurthestVisibleEndsExempt ==
    FunnelDone => (Smoothed = GreedyPath(TRUE) /\ KeepsEnds)

(* C23 amended: funnel_smooth, from each anchor point, appends the         *)
(* furthest later path point whose grid-walked straight line from the      *)
(* anchor has no blocking cell on it, the cells of the anchor and of the   *)
(* candidate point included (only the fallback, the next point, is taken   *)
(* untested when none is visible); the output is a subsequence of the      *)
(* input that starts with the first and ends with the last input point.    *)
C23_FurthestVisibleEndsTested ==
    FunnelDone => (Smoothed = GreedyPath(FALSE) /\ KeepsEnds)

\* a path of 4 points over free cells shortened to 3: the last point is
\* hidden from the first by a blocking cell between them and seen from the
\* third
C23_Witness ==
    /\ FunnelDone /\ Len(path) = 4 /\ Len(Smoothed) = 3
    /\ \A i \in 1 .. 4 : \A j \in 1 .. 4 : path[i] = path[j] => i = j
    /\ \A k \in 1 .. 4 : ~Blocking(CellOfPoint(k))
    /\ Smoothed = <<path[1], path[3], path[4]>>
    /\ ~Visible(1, 4, TRUE)

----------------------------------------------------------------------------
(* SpecTotal: one call of any entry point on a grid of 0 to MaxWidth       *)
(* columns and 0 to 2 rows, with arrays that may be empty, run to its      *)
(* return under weak fairness of the running call's steps                  *)

InitTotal ==
    /\ width \in 0 .. MaxWidth
    /\ height \in 0 .. 2
    /\ costs \in Grids(width, height, Unit, {0}, 2)
    /\ walkable = [c \in Cells(width, height) |-> IF costs[c] > 0 THEN 1 ELSE 0]
    /\ Idle

\* goal arrays: empty, one goal, two goals
TotalGoals == UpTo(2, {Vector2(0, 0), Vector2(1, 1)})
\* index paths and point paths of up to 3 elements
TotalPaths == UpTo(3, 0 .. 2)
TotalPoints == UpTo(3, {Vector2(0, 0), Vector2(1, 1)})

TotalSearchCall ==
    /\ Fresh
    /\ \E s \in Coords(width, height), g \in Coords(width, height), diag \in BOOLEAN :
         \/ AstarCall(s, g, diag)
         \/ PathCostCall(s, g, diag)
         \/ JpsCall(s, g)
         \/ \E gs \in TotalGoals : DijkstraCall(s, gs)
         \/ \E m \in {0, Unit} : ReachCall(s, m)

TotalFieldCall ==
    /\ Fresh
    /\ \/ \E gs \in TotalGoals : MapCall(gs)
       \/ \E d \in [Cells(width, height) -> {Zero, INF}] : FromDijkstraCall(d)

TotalPostCall ==
    /\ Fresh
    /\ \/ \E p \in TotalPaths : SimplifyCall(p)
       \/ \E p \in TotalPaths, cs \in {0, Unit} : PathToVectorsCall(p, cs)
       \/ \E p \in TotalPoints, bv \in {0, 1} : FunnelCall(p, bv)

TotalStep ==
    \/ AstarStep \/ AstarExhausted
    \/ PathCostStep \/ PathCostExhausted
    \/ JpsStep \/ JpsExhausted
    \/ DijkstraStep \/ DijkstraExhausted
    \/ ReachStep \/ ReachReturn
    \/ MapStep \/ MapReturn

NextTotal == TotalSearchCall \/ TotalFieldCall \/ TotalPostCall \/ TotalStep

SpecTotal == InitTotal /\ [][NextTotal]_vars /\ WF_vars(TotalStep)

(* C22: every entry point is total: for every well-typed input, including  *)
(* a zero-size grid (width = 0 or height = 0), empty arrays and any path,  *)
(* each of astar_grid, dijkstra_grid, dijkstra_map,                        *)
(* flow_field_from_dijkstra, jps_grid, reachable_cells, path_cost,         *)
(* funnel_smooth, simplify_path and path_to_vectors terminates and returns *)
(* a value without faulting: no call is killed by a division by zero and   *)
(* every call that is running eventually returns.                          *)
C22_EveryCallReturns ==
    /\ [](op \notin Trapped)
    /\ [](op # "none" => <>(op = "none"))

----------------------------------------------------------------------------
(* SpecSearch: one call of one of the six searches on a weighted or blocked
   grid, watched step by step while its scratch arrays live *)

InitSearch ==
    /\ width \in 1 .. MaxWidth
    /\ height \in 1 .. 2
    /\ costs \in WeightedGrids(width, height) \cup BlockedGrids(width, height, 2)
    /\ walkable = [c \in Cells(width, height) |-> IF costs[c] > 0 THEN 1 ELSE 0]
    /\ Idle

\* goal arrays of the search calls: one cell, or one cell followed by the origin
SearchGoals ==
    {<<Vector2(c[1], c[2])>> : c \in InGrid(width, height)}
        \cup {<<Vector2(c[1], c[2]), Vector2(0, 0)>> : c \in InGrid(width, height)}

\* the caller makes its one call: a point-to-point search ...
SearchPointCall ==
    /\ Fresh
    /\ \E s \in InGrid(width, height), g \in InGrid(width, height) :
         \/ \E diag \in BOOLEAN : AstarCall(s, g, diag)
         \/ \E diag \in BOOLEAN : PathCostCall(s, g, diag)
         \/ JpsCall(s, g)

\* ... or a search from or towards a set of cells
SearchSetCall ==
    /\ Fresh
    /\ \/ \E s \in InGrid(width, height), gs \in SearchGoals : DijkstraCall(s, gs)
       \/ \E gs \in SearchGoals : MapCall(gs)
       \/ \E s \in InGrid(width, height), m \in {Unit, 3 * Unit} : ReachCall(s, m)

\* one iteration of the loop of the running search, or its return
SearchStep ==
    \/ AstarStep \/ AstarExhausted
    \/ PathCostStep \/ PathCostExhausted
    \/ JpsStep \/ JpsExhausted
    \/ DijkstraStep \/ DijkstraExhausted
    \/ MapStep \/ MapReturn
    \/ ReachStep \/ ReachReturn

NextSearch == SearchPointCall \/ SearchSetCall \/ SearchStep

SpecSearch == InitSearch /\ [][NextSearch]_vars

\* the cells the running search starts from at cost 0
Sources ==
    IF op \in MapOps THEN {c \in GoalSet(goals) : costs[c] > 0}
    ELSE {start[2] * width + start[1]}

\* the blocked test the running search applies to cell c
BlockedFor(c) == IF op = "jps_grid" THEN walkable[c] = 0 ELSE Blocked(costs[c])

\* C24: during a search call the recorded best cost of every cell starts at
\* INF, or at 0 for the source or the seeded goals, every later write
\* strictly decreases it, and the entry of a blocked cell stays INF.
C24_CostMonotonic ==
    [][/\ (op = "none" /\ op' \notin Trapped \cup {"none"}) =>
            \A c \in CellsNow :
                /\ g_cost'[c] = (IF c \in Sources' THEN Zero ELSE INF)
                /\ BlockedFor(c)' => IsInf(g_cost'[c])
       /\ (op # "none" /\ op' = op) =>
            \A c \in CellsNow :
                /\ g_cost'[c] = g_cost[c] \/ Less(g_cost'[c], g_cost[c])
                /\ BlockedFor(c) => IsInf(g_cost'[c])]_vars

\* a running A* or path_cost search has lowered the cost of a cell a second
\* time: the frontier holds two entries of the cell with different priorities
C24_Witness ==
    /\ op \in {"astar_grid", "path_cost", "jps_grid"}
    /\ \E n \in BagToSet(open), m \in BagToSet(open) :
         /\ n.index = m.index
         /\ Less(n.f_cost, m.f_cost)
         /\ ~closed[n.index]

\* the searches that keep a closed set, and those that skip stale entries
ClosedSetOps == AstarOps \cup {"path_cost", "jps_grid"}
StaleSkipOps == MapOps \cup {"dijkstra_grid", "reachable_cells"}

\* a step inside the loop of the running search
LoopStep == op # "none" /\ op' = op

\* the frontier entries the step took out
PoppedNodes == {n \in BagToSet(open) : CopiesIn(n, open') < CopiesIn(n, open)}
\* what the step added to the frontier
Pushed == open' (-) open

\* a stale-skipping search has expanded c: its cost is recorded and the
\* frontier no longer holds the entry of that cost
Settled(c) == ~IsInf(g_cost[c]) /\ CopiesIn(PathNode(c, g_cost[c]), open) = 0

\* closed-set searches: a closed cell stays closed and is not written again;
\* the pop of a closed cell changes nothing else, the pop of an open cell
\* closes exactly that cell
ClosedOnce ==
    (LoopStep /\ op \in ClosedSetOps) =>
        /\ \A c \in CellsNow : closed[c] => closed'[c] /\ g_cost'[c] = g_cost[c]
        /\ Cardinality(PoppedNodes) = 1
        /\ \A n \in PoppedNodes :
             IF closed[n.index]
             THEN closed' = closed /\ g_cost' = g_cost /\ Pushed = EmptyBag
             ELSE closed' = [closed EXCEPT ![n.index] = TRUE]

\* stale-skipping searches: no entry is below the recorded cost of its cell; the
\* pop of a stale entry changes nothing else; the cost of the cell of a live
\* entry is final from its pop on
FinalWhenExpanded ==
    (LoopStep /\ op \in StaleSkipOps) =>
        /\ \A n \in BagToSet(open) : ~Less(n.f_cost, g_cost[n.index])
        /\ Cardinality(PoppedNodes) = 1
        /\ \A n \in PoppedNodes :
             Less(g_cost[n.index], n.f_cost) => g_cost' = g_cost /\ Pushed = EmptyBag
        /\ \A c \in CellsNow : Settled(c) => Settled(c)' /\ g_cost'[c] = g_cost[c]

\* the live entry the step popped is the only one of its cell
LivePopsUnique(cells) ==
    (LoopStep /\ op \in StaleSkipOps) =>
        \A n \in PoppedNodes :
            (~Less(g_cost[n.index], n.f_cost) /\ n.index \in cells)
                => CopiesIn(n, open) = 1

\* C25 as stated: no cell is expanded more than once per call; closed-set
\* searches close a cell on its first pop and discard later pops, the other
\* searches skip stale entries and expand a cell only with its final distance.
C25_ExpandedOnce ==
    [][ClosedOnce /\ FinalWhenExpanded /\ LivePopsUnique(CellsNow)]_vars

\* C25 (amended): as stated, except that dijkstra_map expands a goal cell once
\* for each time the goals array names it, each time at its final distance 0.
C25_ExpandedOncePerSeed ==
    [][ClosedOnce /\ FinalWhenExpanded /\ LivePopsUnique(CellsNow \ Sources)
       /\ (op \notin MapOps => LivePopsUnique(Sources))]_vars

\* a closed cell still has an entry on the frontier of a closed-set search:
\* its next pop is discarded
C25_Witness ==
    /\ op \in ClosedSetOps
    /\ \E n \in BagToSet(open) : closed[n.index]

----------------------------------------------------------------------------
(* SpecTree: one call of a search that keeps came_from, on a weighted or
   blocked grid or on a one-row grid with one cell of a cost that absorbs a
   step (one row keeps every sum free of a sqrt(2) part) *)

\* a cell cost so large that adding the cost of one more step is lost in the
\* rounding of the float sum
Huge == 4 * FloatMantissa

InitTree ==
    /\ width \in 1 .. MaxWidth
    /\ height \in 1 .. 2
    /\ costs \in WeightedGrids(width, height) \cup BlockedGrids(width, height, 2)
                    \cup (IF height = 1 THEN Grids(width, height, Unit, {Huge}, 1) ELSE {})
    /\ walkable = [c \in Cells(width, height) |-> IF costs[c] > 0 THEN 1 ELSE 0]
    /\ Idle

TreeCall ==
    /\ Fresh
    /\ \E s \in InGrid(width, height) :
         \/ \E g \in InGrid(width, height), diag \in BOOLEAN : AstarCall(s, g, diag)
         \/ \E g \in InGrid(width, height) : JpsCall(s, g)
         \/ \E gs \in SearchGoals : DijkstraCall(s, gs)

TreeStep ==
    \/ AstarStep \/ AstarExhausted
    \/ JpsStep \/ JpsExhausted
    \/ DijkstraStep \/ DijkstraExhausted

NextTree == TreeCall \/ TreeStep

SpecTree == InitTree /\ [][NextTree]_vars

TreeOps == {"astar_grid", "jps_grid", "dijkstra_grid"}
StartIdx == start[2] * width + start[1]

\* walking came_from back from c visits no cell twice and ends at the start
WalksToStart(c) ==
    LET w == WalkBack(came_from, StartIdx, c)
    IN  NoRepeat(w) /\ Len(w) >= 1 /\ w[Len(w)] = StartIdx

\* came_from[start] is -1, every recorded predecessor leads back to the start,
\* and a returned path starts at the start and has no cell twice
RootedTree ==
    /\ op \in TreeOps =>
         /\ came_from[StartIdx] = -1
         /\ \A c \in CellsNow : came_from[c] # -1 => WalksToStart(c)
    /\ \A e \in TreeOps :
         (ret[e].done /\ ret[e].val # <<>>) =>
             NoRepeat(ret[e].val) /\ ret[e].val[1] = StartIdx

\* C27 as stated: came_from is a tree rooted at the start, and the recorded
\* cost of came_from[c] is strictly less than the recorded cost of c.
C27_ParentStrictlyCheaper ==
    /\ RootedTree
    /\ op \in TreeOps =>
         \A c \in CellsNow :
             came_from[c] # -1 => Less(g_cost[came_from[c]], g_cost[c])

\* C27 (amended): came_from is a tree rooted at the start, and the recorded
\* cost of came_from[c] is never above the recorded cost of c; the two are
\* equal only where the float sum of the predecessor's cost and the step
\* rounds back to the predecessor's cost.
C27_ParentNotDearer ==
    /\ RootedTree
    /\ op \in TreeOps =>
         \A c \in CellsNow :
             came_from[c] # -1 =>
                 /\ ~Less(g_cost[c], g_cost[came_from[c]])
                 /\ g_cost[came_from[c]] = g_cost[c] => g_cost[c][2] >= FloatMantissa

\* a running search has recorded a chain of three cells back to the start
C27_Witness ==
    /\ op \in TreeOps
    /\ \E c \in CellsNow :
         /\ came_from[c] # -1
         /\ Len(WalkBack(came_from, StartIdx, c)) >= 3

----------------------------------------------------------------------------
(* Completeness of jps_grid, under SpecJpsAstar *)

\* a route of walkable cells from start to goal under 8-connected movement
WalkableRoute8 ==
    /\ walkable[Idx(start)] # 0 /\ walkable[Idx(goal)] # 0
    /\ ~IsInf(ShortestFrom(UniformCosts(walkable), Idx(start), TRUE)[Idx(goal)])

\* C26: jps_grid returns a non-empty path whenever a route of walkable cells
\* from start to goal exists under 8-connected movement, and the empty path
\* only when no such route exists or start or goal is invalid.
C26_JpsComplete ==
    ret["jps_grid"].done => (ret["jps_grid"].val = <<>> <=> ~WalkableRoute8)

----------------------------------------------------------------------------
(* SpecWeighted: one astar_grid_weighted query with a heuristic weight of
   0 .. MaxWeight on a weighted or blocked grid *)

\* largest heuristic weight explored
MaxWeight == 3

InitWeighted ==
    /\ width \in 1 .. MaxWidth
    /\ height \in 1 .. 2
    /\ costs \in WeightedGrids(width, height) \cup BlockedGrids(width, height, 2)
    /\ walkable = costs
    /\ Idle

WeightedFirstCall ==
    /\ Fresh
    /\ \E s \in Coords(width, height), g \in InGrid(width, height) \cup {<<width, 0>>},
          diag \in BOOLEAN, hw \in 0 .. MaxWeight : WeightedCall(s, g, diag, hw)

NextWeighted == WeightedFirstCall \/ AstarStep \/ AstarExhausted

SpecWeighted == InitWeighted /\ [][NextWeighted]_vars

\* C28: for every heuristic_weight >= 0 astar_grid_weighted returns a
\* non-empty path exactly when the goal is reachable from the start; the path
\* is a valid start-to-goal path of adjacent passable cells; its cost is never
\* below the optimal cost, and equals it when heuristic_weight is 0 or 1 on a
\* grid whose passable costs are all at least 1.
C28_WeightedSoundAndComplete ==
    ret["astar_grid_weighted"].done =>
        LET p     == PathOf("astar_grid_weighted")
            valid == /\ InBounds(start[1], start[2]) /\ InBounds(goal[1], goal[2])
                     /\ costs[Idx(start)] > 0 /\ costs[Idx(goal)] > 0
            best  == ShortestFrom(costs, Idx(start), allow_diagonal)[Idx(goal)]
        IN  /\ (p # <<>>) <=> (valid /\ ~IsInf(best))
            /\ p # <<>> =>
                 /\ ValidPath(p, costs, Idx(start), {Idx(goal)}, allow_diagonal)
                 /\ ~Less(PathCost(costs, p), best)
                 /\ (heuristic_weight \in {0, 1} /\ CostsAtLeastOne)
                        => PathCost(costs, p) = best

\* a weight above 1 made the search return a path dearer than the optimum
C28_Witness ==
    /\ NonEmpty("astar_grid_weighted")
    /\ heuristic_weight > 1
    /\ Less(ShortestFrom(costs, Idx(start), allow_diagonal)[Idx(goal)],
            PathCost(costs, PathOf("astar_grid_weighted")))

----------------------------------------------------------------------------
(* The distance field as a fixed point, under SpecMap *)

\* the field dijkstra_map returned
MapField == ret["dijkstra_map"].val

\* the least value of the field over the in-bounds 4-neighbours of c
NearestNeighbour(c) == MinOf({INF} \cup {MapField[n] : n \in {m \in CellsNow : Adjacent4(m, c)}})

\* C29: the field returned by dijkstra_map is the fixed point of its
\* relaxation: 0 at every in-bounds passable goal, INF at every blocked cell,
\* and at every other passable cell c the cost of c plus the least value
\* among the in-bounds 4-neighbours of c (INF when they are all INF).
C29_MapFixedPoint ==
    ret["dijkstra_map"].done =>
        \A c \in CellsNow :
            MapField[c] = (IF costs[c] <= 0 THEN INF
                           ELSE IF c \in GoalCells THEN Zero
                           ELSE Add(NearestNeighbour(c), Num(costs[c], 0)))

\* a field in which a cell next to a goal of another cost carries its own
\* cost, and a cell two steps out carries the sum of the two
C29_Witness ==
    /\ ret["dijkstra_map"].done
    /\ \E g \in GoalCells, c \in CellsNow, e \in CellsNow :
         /\ costs[g] > 0 /\ costs[c] > 0 /\ costs[c] # costs[g]
         /\ Adjacent4(g, c) /\ Adjacent4(c, e) /\ e # g
         /\ MapField[c] = Num(costs[c], 0)
         /\ MapField[e] = Num(costs[c] + costs[e], 0)

----------------------------------------------------------------------------
(* SpecGridPath: simplify_path on a path of adjacent cells of a grid of the
   given width, then again on its own result *)

InitGridPath ==
    /\ width \in 1 .. MaxWidth
    /\ height \in 2 .. 3
    /\ costs = [c \in Cells(width, height) |-> Unit]
    /\ walkable = [c \in Cells(width, height) |-> 1]
    /\ Idle

\* every pair of consecutive cells is 4- or 8-adjacent on the grid
ValidGridPath(p) ==
    /\ \A i \in 1 .. Len(p) : p[i] \in CellsNow
    /\ \A i \in 1 .. (Len(p) - 1) : Adjacent8(p[i], p[i + 1])

\* the valid grid paths of exactly n cells
RECURSIVE GridPaths(_)
GridPaths(n) ==
    IF n = 0 THEN {<<>>}
    ELSE IF n = 1 THEN {<<c>> : c \in CellsNow}
    ELSE UNION {{Append(p, c) : c \in {e \in CellsNow : Adjacent8(p[n - 1], e)}} :
                p \in GridPaths(n - 1)}

GridPathFirstCall ==
    /\ Fresh
    /\ \E n \in 0 .. (MaxLen + 1) : \E p \in GridPaths(n) : SimplifyCall(p)

NextGridPath == GridPathFirstCall \/ SimplifyAgainCall

SpecGridPath == InitGridPath /\ [][NextGridPath]_vars

\* the step from cell a to cell b
StepDir(a, b) == <<XOf(b) - XOf(a), YOf(b) - YOf(a)>>

\* the positions of p that are its ends or a change of the step direction
TurnsOf(p) ==
    {1, Len(p)} \cup {i \in 2 .. (Len(p) - 1) : StepDir(p[i - 1], p[i]) # StepDir(p[i], p[i + 1])}

\* q is p restricted to the positions K, in order
RestrictedTo(q, p, K) ==
    /\ Len(q) = Cardinality(K)
    /\ \A j \in 1 .. Len(q) :
         \E i \in K : q[j] = p[i] /\ Cardinality({k \in K : k < i}) = j - 1

\* C30: on a valid grid path simplify_path keeps the first cell, the last
\* cell and exactly the interior cells where the step direction changes; a
\* path of fewer than 3 cells is returned unchanged; applied to its own
\* output it returns that output unchanged.
C30_KeepsTurnsIdempotent ==
    /\ [](  (ret["simplify_path"].done /\ ValidGridPath(path)) =>
              /\ Len(path) < 3 => ret["simplify_path"].val = path
              /\ Len(path) >= 1 =>
                   RestrictedTo(ret["simplify_path"].val, path, TurnsOf(path)))
    /\ [][(ret["simplify_path"].done /\ path' = ret["simplify_path"].val)
             => ret["simplify_path"]'.val = ret["simplify_path"].val]_vars

\* simplify_path has been applied to an output of its own of three cells,
\* two of them more than one step apart, and has returned it unchanged
C30_Witness ==
    /\ ret["simplify_path"].done
    /\ Len(path) = 3
    /\ ret["simplify_path"].val = path
    /\ ~ValidGridPath(path)

============================================================================
